---- MODULE Spec2Model ----
(***************************************************************************)
(* A model of forjex's repository synchronisation (GitService.initAndPush, *)
(* src/src/services/git.ts) and of its commit message generator            *)
(* (CommitMessageGenerator, src/src/services/commit-generator.ts).         *)
(*                                                                         *)
(* initAndPush is one async task.  Every simple-git call is modelled as a  *)
(* call step (Issue) and a return step (one action per git operation), so  *)
(* that the awaits of the code are visible: the task is suspended while a  *)
(* call it awaits is in flight.  The git backend is external: an operation *)
(* fails when the repository state makes git refuse it (a "state" failure) *)
(* and may fail for reasons outside the model (an "external" failure).     *)
(***************************************************************************)
EXTENDS Integers, Sequences, FiniteSets, TLC

VARIABLES
    pc,             \* control point of initAndPush ("idle", a call site, "done")
    waiting,        \* TRUE while the task is suspended on the await of the call at pc
    inflight,       \* call sites whose git operation has started and not yet returned
    repoUrl,        \* argument repoUrl of the current invocation
    isExistingRepo, \* argument isExistingRepo of the current invocation
    locals,         \* isRepo, hasOrigin, branches.all.includes('main')
    thrown,         \* the error most recently thrown by a call
    outcome,        \* "none" while running, "Done" (resolved) or "Failed" (rejected)
    raised,         \* the error the promise rejected with
    warnings,       \* texts written by the pull catch (console.log at line 91)
    log,            \* the git calls of this invocation, in issue order, with results
    invocation,     \* number of invocations started so far
    base,           \* the repository state when the first invocation started
    start,          \* the repository state when the current invocation started
    gitDir,         \* .git exists
    head,           \* the branch HEAD names ("" without repository)
    branches,       \* local branches that have a commit
    origin,         \* URL of remote origin, "" when there is none
    commits,        \* messages of the commits created, oldest first
    upstream,       \* URL main was last pushed to, "" when never
    gen,            \* generateCommitMessage: diff, unstagedDiff, result, trace
    synth,          \* one call of the message synthesis, step by step (SpecSynth)
    forge,          \* one run of forgeCommand, step by step (SpecForge)
    svc             \* the GitHub and Vercel services and the configuration file (SpecServices)

vars == <<pc, waiting, inflight, repoUrl, isExistingRepo, locals, thrown, outcome,
          raised, warnings, log, invocation, base, start, gitDir, head, branches,
          origin, commits, upstream, gen, synth, forge, svc>>

world == <<gitDir, head, branches, origin, commits, upstream>>

----------------------------------------------------------------------------
(* Bounds and input sets *)

MaxInvocations == 2

RepoUrls == {"https://github.com/u/a.git", "https://github.com/u/b.git"}

DefaultBranches == {"main", "master"}

NoError == [site |-> "", kind |-> "", fact |-> "", msg |-> ""]

----------------------------------------------------------------------------
(* String helpers (JavaScript String methods) *)

\* String.prototype.includes
Includes(s, sub) ==
    \E i \in 1..(Len(s) - Len(sub) + 1) : SubSeq(s, i, i + Len(sub) - 1) = sub

\* String.prototype.startsWith
StartsWith(s, p) == Len(s) >= Len(p) /\ SubSeq(s, 1, Len(p)) = p

\* String.prototype.endsWith
EndsWith(s, p) == Len(s) >= Len(p) /\ SubSeq(s, Len(s) - Len(p) + 1, Len(s)) = p

IsSpace(c) == c \in {" ", "\n", "\t", "\r"}

\* String.prototype.trim
RECURSIVE TrimLeft(_)
TrimLeft(s) ==
    IF Len(s) > 0 /\ IsSpace(SubSeq(s, 1, 1)) THEN TrimLeft(SubSeq(s, 2, Len(s))) ELSE s

RECURSIVE TrimRight(_)
TrimRight(s) ==
    IF Len(s) > 0 /\ IsSpace(SubSeq(s, Len(s), Len(s)))
    THEN TrimRight(SubSeq(s, 1, Len(s) - 1)) ELSE s

Trim(s) == TrimRight(TrimLeft(s))

Char(s, i) == SubSeq(s, i, i)

\* the literal lit occurs in s at index i
MatchAt(s, i, lit) == i >= 1 /\ i + Len(lit) - 1 <= Len(s) /\ SubSeq(s, i, i + Len(lit) - 1) = lit

Min(S) == CHOOSE x \in S : \A y \in S : x <= y

\* String.prototype.split on a one-character separator
RECURSIVE SplitOn(_, _)
SplitOn(s, sep) ==
    LET hits == {i \in 1..Len(s) : Char(s, i) = sep}
    IN  IF hits = {} THEN <<s>>
        ELSE <<SubSeq(s, 1, Min(hits) - 1)>> \o SplitOn(SubSeq(s, Min(hits) + 1, Len(s)), sep)

\* Regular expression character classes
UpperChars == {"A", "B", "C", "D", "E", "F", "G", "H", "I", "J", "K", "L", "M",
               "N", "O", "P", "Q", "R", "S", "T", "U", "V", "W", "X", "Y", "Z"}

LowerChars == {"a", "b", "c", "d", "e", "f", "g", "h", "i", "j", "k", "l", "m",
               "n", "o", "p", "q", "r", "s", "t", "u", "v", "w", "x", "y", "z"}

DigitChars == {"0", "1", "2", "3", "4", "5", "6", "7", "8", "9"}

\* \w
IsWord(c) == c \in UpperChars \cup LowerChars \cup DigitChars \cup {"_"}

\* index after the longest run of \w characters of s that starts at i
RECURSIVE WordEnd(_, _)
WordEnd(s, i) == IF i <= Len(s) /\ IsWord(Char(s, i)) THEN WordEnd(s, i + 1) ELSE i

\* index after the longest run of \s characters of s that starts at i
RECURSIVE SpaceEnd(_, _)
SpaceEnd(s, i) == IF i <= Len(s) /\ IsSpace(Char(s, i)) THEN SpaceEnd(s, i + 1) ELSE i

\* String.prototype.toLowerCase (ASCII letters)
LowerOf(c) ==
    CASE c = "A" -> "a" [] c = "B" -> "b" [] c = "C" -> "c" [] c = "D" -> "d"
      [] c = "E" -> "e" [] c = "F" -> "f" [] c = "G" -> "g" [] c = "H" -> "h"
      [] c = "I" -> "i" [] c = "J" -> "j" [] c = "K" -> "k" [] c = "L" -> "l"
      [] c = "M" -> "m" [] c = "N" -> "n" [] c = "O" -> "o" [] c = "P" -> "p"
      [] c = "Q" -> "q" [] c = "R" -> "r" [] c = "S" -> "s" [] c = "T" -> "t"
      [] c = "U" -> "u" [] c = "V" -> "v" [] c = "W" -> "w" [] c = "X" -> "x"
      [] c = "Y" -> "y" [] c = "Z" -> "z" [] OTHER -> c

RECURSIVE ToLowerCase(_)
ToLowerCase(s) ==
    IF Len(s) = 0 THEN "" ELSE LowerOf(Char(s, 1)) \o ToLowerCase(SubSeq(s, 2, Len(s)))

----------------------------------------------------------------------------
(* GitService.initAndPush: call sites, named <line>:<simple-git method> *)

ExistingSites == {"49:init", "52:checkoutLocalBranch", "54:checkout", "59:getRemotes",
                  "63:removeRemote", "64:addRemote", "67:addRemote", "72:add",
                  "82:commit", "88:pull", "96:push"}

NewSites == {"99:init", "101:branch", "102:branchLocal", "104:checkoutLocalBranch",
             "106:checkout", "109:checkoutLocalBranch", "113:add", "116:commit",
             "119:addRemote", "120:push"}

GitSites == ExistingSites \cup NewSites

\* The simple-git method called at a site
Op(site) ==
    CASE site \in {"49:init", "99:init"} -> "init"
      [] site \in {"52:checkoutLocalBranch", "104:checkoutLocalBranch",
                   "109:checkoutLocalBranch"} -> "checkoutLocalBranch"
      [] site \in {"54:checkout", "106:checkout"} -> "checkout"
      [] site = "59:getRemotes" -> "getRemotes"
      [] site = "63:removeRemote" -> "removeRemote"
      [] site \in {"64:addRemote", "67:addRemote", "119:addRemote"} -> "addRemote"
      [] site \in {"72:add", "113:add"} -> "add"
      [] site \in {"82:commit", "116:commit"} -> "commit"
      [] site = "88:pull" -> "pull"
      [] site \in {"96:push", "120:push"} -> "push"
      [] site = "101:branch" -> "branch"
      [] site = "102:branchLocal" -> "branchLocal"

\* Operations that change the repository (the others only read it)
MutatingOps == {"init", "checkoutLocalBranch", "checkout", "removeRemote", "addRemote",
                "add", "commit", "pull", "push"}

\* a variant: the commit message without its suffix
InitialCommitMessageShort == "Initial commit"

InitialCommitMessage == "Initial commit from Forjex"

PushOptions == "--set-upstream"

PullOptions == "--rebase --allow-unrelated-histories"

BenignPullText == "couldn't find remote ref"

\* The argument that distinguishes the call at a site
Arg(site) ==
    CASE Op(site) = "addRemote" -> repoUrl
      [] site = "82:commit" -> gen.result
      [] site = "116:commit" -> InitialCommitMessage
      [] Op(site) = "push" -> PushOptions
      [] Op(site) = "pull" -> PullOptions
      [] Op(site) \in {"checkoutLocalBranch", "checkout"} -> "main"
      [] OTHER -> ""

\* remotes.some(r => r.name === 'origin')
HasOrigin(remoteUrl) == remoteUrl # ""

\* a variant: git.add('.') is called without await
AwaitedExceptAdd(site) == site # "72:add"

\* Every simple-git call of initAndPush is awaited
Awaited(site) == TRUE

\* if (isExistingRepo) ... else ...
FirstStep(existing) == IF existing THEN "45:isGitRepository" ELSE "99:init"

\* a variant: the repository is initialised without looking at isRepo
AfterIsRepoAlwaysInit(isRepo) == "49:init"

\* if (!isRepo) { init ... } then remote set-up
AfterIsRepo(isRepo) == IF isRepo THEN "59:getRemotes" ELSE "49:init"

\* a variant: an origin that exists is kept as it is
AfterGetRemotesKeepsOrigin(hasOrigin) == IF hasOrigin THEN "72:add" ELSE "67:addRemote"

\* if (hasOrigin) { removeRemote; addRemote } else { addRemote }
AfterGetRemotes(hasOrigin) == IF hasOrigin THEN "63:removeRemote" ELSE "67:addRemote"

\* a variant: origin is removed and not added again
AfterRemoveRemoteSkipsAdd == "72:add"

\* await this.git.addRemote('origin', repoUrl) follows removeRemote
AfterRemoveRemote == "64:addRemote"

\* if (!branches.all.includes('main')) checkoutLocalBranch else checkout
AfterBranchLocal(hasMain) ==
    IF ~hasMain THEN "104:checkoutLocalBranch" ELSE "106:checkout"

\* a variant: the push follows the initial commit, without addRemote
AfterCommitNewPushes == "120:push"

\* await this.git.addRemote('origin', repoUrl) follows the initial commit
AfterCommitNew == "119:addRemote"

\* Where the task continues when the awaited call at a site resolves
OkNext(site, l) ==
    CASE site = "49:init" -> "52:checkoutLocalBranch"
      [] site \in {"52:checkoutLocalBranch", "54:checkout"} -> "59:getRemotes"
      [] site = "59:getRemotes" -> AfterGetRemotes(l.hasOrigin)
      [] site = "63:removeRemote" -> AfterRemoveRemote
      [] site \in {"64:addRemote", "67:addRemote"} -> "72:add"
      [] site = "72:add" -> "76:generate"
      [] site = "82:commit" -> "88:pull"
      [] site = "88:pull" -> "96:push"
      [] site \in {"96:push", "120:push"} -> "123:succeed"
      [] site = "99:init" -> "101:branch"
      [] site = "101:branch" -> "102:branchLocal"
      [] site = "102:branchLocal" -> AfterBranchLocal(l.hasMain)
      [] site \in {"104:checkoutLocalBranch", "106:checkout",
                   "109:checkoutLocalBranch"} -> "113:add"
      [] site = "113:add" -> "116:commit"
      [] site = "116:commit" -> AfterCommitNew
      [] site = "119:addRemote" -> "120:push"

\* a variant: a rejected push is swallowed
PushFailSwallowed == "123:succeed"

\* a rejected push reaches the outer catch
PushFailNext == "124:catch"

\* Where the task continues when the awaited call at a site rejects: the inner
\* catch blocks (lines 53, 89, 108) or the outer catch (line 124)
FailNext(site) ==
    CASE site = "52:checkoutLocalBranch" -> "54:checkout"
      [] site = "88:pull" -> "89:pullCatch"
      [] site \in {"101:branch", "102:branchLocal", "104:checkoutLocalBranch",
                   "106:checkout"} -> "109:checkoutLocalBranch"
      [] site \in {"96:push", "120:push"} -> PushFailNext
      [] OTHER -> "124:catch"

\* a variant: the pull catch reports every failure
PullWarnsAlways(msg) == TRUE

\* if (!pullError.message.includes('couldn\'t find remote ref')) console.log(...)
PullWarns(msg) == ~Includes(msg, BenignPullText)

\* a variant: the pull catch rethrows what it does not recognise
AfterPullCatchRethrows(msg) ==
    IF Includes(msg, BenignPullText) THEN "96:push" ELSE "124:catch"

\* After the pull catch block the flow falls through to push
AfterPullCatch(msg) == "96:push"

\* a variant: the catch throws a new error
RethrownWrapped(e) == [e EXCEPT !.msg = "Failed to push to GitHub"]

\* throw error (line 126)
Rethrown(e) == e

----------------------------------------------------------------------------
(* The git backend (simple-git over the git executable) *)

External(site) ==
    [site |-> site, kind |-> "external", fact |-> "", msg |-> "external failure"]

Refused(site, fact, msg) ==
    [site |-> site, kind |-> "state", fact |-> fact, msg |-> msg]

PullErrors == {"fatal: couldn't find remote ref main",
               "fatal: unable to access the remote"}

NoGen == [diff |-> "", unstagedDiff |-> "", result |-> "", trace |-> <<>>]

NoLocals == [isRepo |-> FALSE, hasOrigin |-> FALSE, hasMain |-> FALSE]

\* The task resumes (or not, when the call was not awaited) as a call returns
Resume(site, ok, err, l) ==
    /\ inflight' = inflight \ {site}
    /\ log' = [i \in DOMAIN log |->
                 IF log[i].site = site /\ log[i].res = "pending"
                 THEN [log[i] EXCEPT !.res = IF ok THEN "ok" ELSE "failed", !.err = err]
                 ELSE log[i]]
    /\ locals' = l
    /\ IF waiting /\ pc = site
       THEN /\ waiting' = FALSE
            /\ pc' = IF ok THEN OkNext(site, l) ELSE FailNext(site)
            /\ thrown' = IF ok THEN thrown ELSE err
       ELSE UNCHANGED <<waiting, pc, thrown>>
    /\ UNCHANGED <<synth, forge, svc, repoUrl, isExistingRepo, outcome, raised, warnings, invocation,
                   base, start, gen>>

Fails(site, err) == UNCHANGED world /\ Resume(site, FALSE, err, locals)

\* git init: creates .git with HEAD on the configured default branch; on an
\* existing repository it reinitialises and changes nothing
InitReturns ==
    \E site \in inflight :
        /\ Op(site) = "init"
        /\ \/ /\ gitDir' = TRUE
              /\ IF gitDir THEN head' = head ELSE head' \in DefaultBranches
              /\ UNCHANGED <<branches, origin, commits, upstream>>
              /\ Resume(site, TRUE, NoError, locals)
           \/ Fails(site, External(site))

\* git checkout -b main: refused when branch main exists
CheckoutLocalBranchReturns ==
    \E site \in inflight :
        /\ Op(site) = "checkoutLocalBranch"
        /\ \/ /\ "main" \notin branches
              /\ head' = "main"
              /\ UNCHANGED <<gitDir, branches, origin, commits, upstream>>
              /\ Resume(site, TRUE, NoError, locals)
           \/ /\ "main" \in branches
              /\ Fails(site, Refused(site, "main-exists",
                                     "fatal: a branch named 'main' already exists"))
           \/ Fails(site, External(site))

\* git checkout main: refused when there is no branch main
CheckoutReturns ==
    \E site \in inflight :
        /\ Op(site) = "checkout"
        /\ \/ /\ "main" \in branches
              /\ head' = "main"
              /\ UNCHANGED <<gitDir, branches, origin, commits, upstream>>
              /\ Resume(site, TRUE, NoError, locals)
           \/ /\ "main" \notin branches
              /\ Fails(site, Refused(site, "main-missing",
                                     "error: pathspec 'main' did not match any file(s) known to git"))
           \/ Fails(site, External(site))

\* git branch / git branch -v: read the local branches
BranchReturns ==
    \E site \in inflight :
        /\ Op(site) \in {"branch", "branchLocal"}
        /\ \/ /\ UNCHANGED world
              /\ Resume(site, TRUE, NoError,
                        IF Op(site) = "branchLocal"
                        THEN [locals EXCEPT !.hasMain = "main" \in branches]
                        ELSE locals)
           \/ Fails(site, External(site))

\* git remote -v
GetRemotesReturns ==
    \E site \in inflight :
        /\ Op(site) = "getRemotes"
        /\ \/ /\ UNCHANGED world
              /\ Resume(site, TRUE, NoError, [locals EXCEPT !.hasOrigin = HasOrigin(origin)])
           \/ Fails(site, External(site))

\* git remote remove origin: refused when there is no origin
RemoveRemoteReturns ==
    \E site \in inflight :
        /\ Op(site) = "removeRemote"
        /\ \/ /\ origin # ""
              /\ origin' = ""
              /\ UNCHANGED <<gitDir, head, branches, commits, upstream>>
              /\ Resume(site, TRUE, NoError, locals)
           \/ /\ origin = ""
              /\ Fails(site, Refused(site, "origin-missing",
                                     "error: No such remote: 'origin'"))
           \/ Fails(site, External(site))

\* git remote add origin <url>: refused when origin exists
AddRemoteReturns ==
    \E site \in inflight :
        /\ Op(site) = "addRemote"
        /\ \/ /\ origin = ""
              /\ origin' = log[CHOOSE i \in DOMAIN log : log[i].site = site].arg
              /\ UNCHANGED <<gitDir, head, branches, commits, upstream>>
              /\ Resume(site, TRUE, NoError, locals)
           \/ /\ origin # ""
              /\ Fails(site, Refused(site, "origin-exists",
                                     "error: remote origin already exists."))
           \/ Fails(site, External(site))

\* git add .
AddReturns ==
    \E site \in inflight :
        /\ Op(site) = "add"
        /\ \/ /\ UNCHANGED world
              /\ Resume(site, TRUE, NoError, locals)
           \/ Fails(site, External(site))

\* git commit -m <message>: creates a commit on HEAD's branch, or finds nothing
\* to commit (which simple-git does not report as an error)
CommitReturns ==
    \E site \in inflight :
        /\ Op(site) = "commit"
        /\ \/ /\ commits' = Append(commits, log[CHOOSE i \in DOMAIN log : log[i].site = site].arg)
              /\ branches' = branches \cup {head}
              /\ UNCHANGED <<gitDir, head, origin, upstream>>
              /\ Resume(site, TRUE, NoError, locals)
           \/ /\ UNCHANGED world
              /\ Resume(site, TRUE, NoError, locals)
           \/ Fails(site, External(site))

\* git pull origin main --rebase --allow-unrelated-histories
PullReturns ==
    \E site \in inflight :
        /\ Op(site) = "pull"
        /\ \/ /\ UNCHANGED world
              /\ Resume(site, TRUE, NoError, locals)
           \/ \E m \in PullErrors : Fails(site, [External(site) EXCEPT !.msg = m])

\* git push origin main --set-upstream: refused without remote origin or
\* without a local branch main
PushReturns ==
    \E site \in inflight :
        /\ Op(site) = "push"
        /\ \/ /\ origin # "" /\ "main" \in branches
              /\ upstream' = origin
              /\ UNCHANGED <<gitDir, head, branches, origin, commits>>
              /\ Resume(site, TRUE, NoError, locals)
           \/ /\ origin = ""
              /\ Fails(site, Refused(site, "origin-missing",
                                     "fatal: 'origin' does not appear to be a git repository"))
           \/ /\ origin # "" /\ "main" \notin branches
              /\ Fails(site, Refused(site, "main-missing",
                                     "error: src refspec main does not match any"))
           \/ Fails(site, External(site))

----------------------------------------------------------------------------
(* CommitMessageGenerator: the diff parser, the classifier, the builder *)

\* a variant: a fallback text without type prefix
FallbackMessageUntyped == "Update code"

FallbackMessage == "chore: update code"

\* /function\s+(\w+)/ matched at index i
FunctionDeclAt(s, i) ==
    /\ MatchAt(s, i, "function")
    /\ SpaceEnd(s, i + 8) > i + 8
    /\ WordEnd(s, SpaceEnd(s, i + 8)) > SpaceEnd(s, i + 8)

FunctionDeclName(s, i) ==
    SubSeq(s, SpaceEnd(s, i + 8), WordEnd(s, SpaceEnd(s, i + 8)) - 1)

\* /const\s+(\w+)\s*=/ matched at index i
ConstAssignAt(s, i) ==
    /\ MatchAt(s, i, "const")
    /\ SpaceEnd(s, i + 5) > i + 5
    /\ WordEnd(s, SpaceEnd(s, i + 5)) > SpaceEnd(s, i + 5)
    /\ MatchAt(s, SpaceEnd(s, WordEnd(s, SpaceEnd(s, i + 5))), "=")

ConstAssignName(s, i) ==
    SubSeq(s, SpaceEnd(s, i + 5), WordEnd(s, SpaceEnd(s, i + 5)) - 1)

\* /const\s+\w+\s*=.*=>/ matched at index i
ConstArrowAt(s, i) ==
    /\ ConstAssignAt(s, i)
    /\ \E p \in 1..Len(s) :
          /\ p > SpaceEnd(s, WordEnd(s, SpaceEnd(s, i + 5)))
          /\ MatchAt(s, p, "=>")

\* /async.*function/ matched at index i
AsyncFunctionAt(s, i) ==
    MatchAt(s, i, "async") /\ \E p \in (i + 5)..Len(s) : MatchAt(s, p, "function")

\* content.match(/function\s+\w+|const\s+\w+\s*=.*=>|async.*function/)
IsAddedFunction(content) ==
    \E i \in 1..Len(content) :
        FunctionDeclAt(content, i) \/ ConstArrowAt(content, i) \/ AsyncFunctionAt(content, i)

\* content.match(/function\s+\w+|const\s+\w+\s*=/)
IsRemovedFunction(content) ==
    \E i \in 1..Len(content) : FunctionDeclAt(content, i) \/ ConstAssignAt(content, i)

\* funcMatch = content.match(/function\s+(\w+)|const\s+(\w+)\s*=/);
\* funcMatch ? (funcMatch[1] || funcMatch[2]) : 'function'
FuncName(content) ==
    LET hits == {i \in 1..Len(content) :
                    FunctionDeclAt(content, i) \/ ConstAssignAt(content, i)}
    IN  IF hits = {} THEN "function"
        ELSE IF FunctionDeclAt(content, Min(hits))
             THEN FunctionDeclName(content, Min(hits))
             ELSE ConstAssignName(content, Min(hits))

\* /class\s+(\w+)/ matched at index i
ClassAt(s, i) ==
    /\ MatchAt(s, i, "class")
    /\ SpaceEnd(s, i + 5) > i + 5
    /\ WordEnd(s, SpaceEnd(s, i + 5)) > SpaceEnd(s, i + 5)

IsClass(content) == \E i \in 1..Len(content) : ClassAt(content, i)

ClassName(content) ==
    LET i == Min({k \in 1..Len(content) : ClassAt(content, k)})
    IN  SubSeq(content, SpaceEnd(content, i + 5), WordEnd(content, SpaceEnd(content, i + 5)) - 1)

\* content.match(/import.*from/)
IsImport(content) ==
    \E i \in 1..Len(content) :
        MatchAt(content, i, "import") /\ \E p \in (i + 6)..Len(content) : MatchAt(content, p, "from")

IsQuote(c) == c \in {"'", "\""}

\* index after the longest run of [^'"] characters of s that starts at i
RECURSIVE NonQuoteEnd(_, _)
NonQuoteEnd(s, i) ==
    IF i <= Len(s) /\ ~IsQuote(Char(s, i)) THEN NonQuoteEnd(s, i + 1) ELSE i

\* /from\s+['"]([^'"]+)['"]/ matched at index i
FromAt(s, i) ==
    /\ MatchAt(s, i, "from")
    /\ SpaceEnd(s, i + 4) > i + 4
    /\ SpaceEnd(s, i + 4) <= Len(s)
    /\ IsQuote(Char(s, SpaceEnd(s, i + 4)))
    /\ NonQuoteEnd(s, SpaceEnd(s, i + 4) + 1) > SpaceEnd(s, i + 4) + 1
    /\ NonQuoteEnd(s, SpaceEnd(s, i + 4) + 1) <= Len(s)

Last(seq) == seq[Len(seq)]

\* importMatch?.[1]?.split('/').pop() || 'dependency'
ModuleName(content) ==
    LET hits == {i \in 1..Len(content) : FromAt(content, i)}
    IN  IF hits = {} THEN "dependency"
        ELSE LET q == SpaceEnd(content, Min(hits) + 4)
                 m == SubSeq(content, q + 1, NonQuoteEnd(content, q + 1) - 1)
             IN  IF Last(SplitOn(m, "/")) = "" THEN "dependency" ELSE Last(SplitOn(m, "/"))

\* /<([A-Z]\w+)/ matched at index i
ComponentAt(s, i) ==
    /\ MatchAt(s, i, "<")
    /\ i + 1 <= Len(s)
    /\ Char(s, i + 1) \in UpperChars
    /\ WordEnd(s, i + 2) > i + 2

IsComponent(content) == \E i \in 1..Len(content) : ComponentAt(content, i)

ComponentName(content) ==
    LET i == Min({k \in 1..Len(content) : ComponentAt(content, k)})
    IN  SubSeq(content, i + 1, WordEnd(content, i + 2) - 1)

\* content.match(/use\w+/)?.[0]
HookName(content) ==
    LET hits == {i \in 1..Len(content) :
                    MatchAt(content, i, "use") /\ WordEnd(content, i + 3) > i + 3}
    IN  SubSeq(content, Min(hits), WordEnd(content, Min(hits) + 3) - 1)

\* s.replace(/[^\w\s]/g, '')
RECURSIVE KeepWordAndSpace(_)
KeepWordAndSpace(s) ==
    IF Len(s) = 0 THEN ""
    ELSE (IF IsWord(Char(s, 1)) \/ IsSpace(Char(s, 1)) THEN Char(s, 1) ELSE "")
         \o KeepWordAndSpace(SubSeq(s, 2, Len(s)))

GenericMinLength == 10

PreviewLength == 30

\* content.substring(0, 30).replace(/[^\w\s]/g, '').trim()
Preview(content) ==
    Trim(KeepWordAndSpace(SubSeq(content, 1, IF Len(content) < PreviewLength
                                             THEN Len(content) ELSE PreviewLength)))

\* The tokens an added line contributes (lines 90-119): a sequence of zero or one
AddedToken(content) ==
    IF Includes(content, "<button") \/ Includes(content, "Button") THEN <<"button">>
    ELSE IF Includes(content, "<input") \/ Includes(content, "Input") THEN <<"input field">>
    ELSE IF Includes(content, "<form") \/ Includes(content, "Form") THEN <<"form">>
    ELSE IF IsAddedFunction(content) THEN <<FuncName(content)>>
    ELSE IF IsClass(content) THEN <<ClassName(content) \o " class">>
    ELSE IF IsImport(content) THEN <<ModuleName(content) \o " import">>
    ELSE IF IsComponent(content) THEN <<ComponentName(content) \o " component">>
    ELSE IF Includes(content, "useState") \/ Includes(content, "useEffect")
         THEN <<HookName(content) \o " hook">>
    ELSE IF /\ Len(content) > GenericMinLength
            /\ ~StartsWith(content, "//")
            /\ ~StartsWith(content, "/*")
            /\ Preview(content) # ""
         THEN <<"content">>
    ELSE <<>>

\* The tokens a removed line contributes (lines 128-136)
RemovedToken(content) ==
    IF Includes(content, "<button") \/ Includes(content, "Button") THEN <<"button">>
    ELSE IF IsRemovedFunction(content) THEN <<FuncName(content)>>
    ELSE IF Len(content) > GenericMinLength /\ ~StartsWith(content, "//") THEN <<"code">>
    ELSE <<>>

\* line.match(/^\+\+\+ b\/(.+)$/): "." matches no line terminator
IsFileHeader(line) ==
    /\ StartsWith(line, "+++ b/")
    /\ Len(line) > 6
    /\ ~Includes(line, "\r")

HeaderPath(line) == SubSeq(line, 7, Len(line))

NoChange == [file |-> "", added |-> <<>>, removed |-> <<>>, modified |-> <<>>]

\* The loop of extractFileChanges from line i on; st holds currentFile,
\* currentChange and fileChanges
RECURSIVE ScanLines(_, _, _)
ScanLines(lines, i, st) ==
    IF i > Len(lines)
    THEN IF st.currentFile # "" /\ st.currentChange.file # ""
         THEN Append(st.fileChanges, st.currentChange)
         ELSE st.fileChanges
    ELSE LET line == lines[i]
             content == Trim(SubSeq(line, 2, Len(line)))
         IN  IF IsFileHeader(line)
             THEN ScanLines(lines, i + 1,
                    [currentFile |-> HeaderPath(line),
                     currentChange |-> [NoChange EXCEPT !.file = HeaderPath(line)],
                     fileChanges |->
                        IF st.currentFile # "" /\ st.currentChange.file # ""
                        THEN Append(st.fileChanges, st.currentChange)
                        ELSE st.fileChanges])
             ELSE IF st.currentFile = "" THEN ScanLines(lines, i + 1, st)
             ELSE IF StartsWith(line, "+") /\ ~StartsWith(line, "+++") /\ content # ""
             THEN ScanLines(lines, i + 1,
                    [st EXCEPT !.currentChange.added = @ \o AddedToken(content)])
             ELSE IF StartsWith(line, "-") /\ ~StartsWith(line, "---") /\ content # ""
             THEN ScanLines(lines, i + 1,
                    [st EXCEPT !.currentChange.removed = @ \o RemovedToken(content)])
             ELSE ScanLines(lines, i + 1, st)

\* a variant: the scan starts with a file already open
extractFileChangesOpenAtStart(diff) ==
    ScanLines(SplitOn(diff, "\n"), 1,
              [currentFile |-> "?", currentChange |-> [NoChange EXCEPT !.file = "?"],
               fileChanges |-> <<>>])

extractFileChanges(diff) ==
    ScanLines(SplitOn(diff, "\n"), 1,
              [currentFile |-> "", currentChange |-> NoChange, fileChanges |-> <<>>])

FeatMinAdded == 2

detectCommitType(change) ==
    LET file == change.file
        added == change.added
        removed == change.removed
    IN  IF EndsWith(file, ".md") \/ Includes(file, "README") THEN "docs"
        ELSE IF Includes(file, "test") \/ Includes(file, ".spec.") \/ Includes(file, ".test.")
             THEN "test"
        ELSE IF EndsWith(file, ".css") \/ EndsWith(file, ".scss") \/ Includes(file, "style")
             THEN "style"
        ELSE IF Includes(file, "config") \/ file = "package.json" THEN "chore"
        ELSE IF Len(added) > Len(removed) /\ Len(added) > FeatMinAdded THEN "feat"
        ELSE IF Includes(ToLowerCase(file), "fix") \/ Includes(ToLowerCase(file), "bug")
             THEN "fix"
        ELSE IF Len(removed) > Len(added) THEN "refactor"
        ELSE "chore"

\* [...new Set(seq)]: the distinct elements in order of first occurrence
RECURSIVE Unique(_)
Unique(seq) ==
    IF Len(seq) = 0 THEN <<>>
    ELSE LET init == Unique(SubSeq(seq, 1, Len(seq) - 1))
         IN  IF \E k \in 1..Len(init) : init[k] = Last(seq) THEN init
             ELSE Append(init, Last(seq))

\* Number.prototype.toString for the item counts that occur
DigitOf(d) ==
    CASE d = 0 -> "0" [] d = 1 -> "1" [] d = 2 -> "2" [] d = 3 -> "3" [] d = 4 -> "4"
      [] d = 5 -> "5" [] d = 6 -> "6" [] d = 7 -> "7" [] d = 8 -> "8" [] d = 9 -> "9"

RECURSIVE NumToString(_)
NumToString(n) ==
    IF n < 10 THEN DigitOf(n) ELSE NumToString(n \div 10) \o DigitOf(n % 10)

\* Array.prototype.join
RECURSIVE Join(_, _)
Join(parts, sep) ==
    IF Len(parts) = 0 THEN ""
    ELSE IF Len(parts) = 1 THEN parts[1]
    ELSE parts[1] \o sep \o Join(Tail(parts), sep)

buildSpecificDescription(change, fileName) ==
    LET added == change.added
        removed == change.removed
        uniqueAdded == Unique(added)
        uniqueRemoved == Unique(removed)
        addPart ==
            IF Len(added) = 0 THEN <<>>
            ELSE IF Len(uniqueAdded) = 1
                 THEN <<"add " \o uniqueAdded[1] \o " to " \o fileName>>
            ELSE IF Len(uniqueAdded) = 2
                 THEN <<"add " \o uniqueAdded[1] \o " and " \o uniqueAdded[2]
                        \o " to " \o fileName>>
            ELSE <<"add " \o Join(SubSeq(uniqueAdded, 1, 2), ", ") \o " to " \o fileName>>
        removePart ==
            IF Len(removed) = 0 THEN <<>>
            ELSE IF Len(uniqueRemoved) = 1
                 THEN IF Len(addPart) > 0
                      THEN <<"remove " \o uniqueRemoved[1]>>
                      ELSE <<"remove " \o uniqueRemoved[1] \o " from " \o fileName>>
            ELSE IF Len(addPart) > 0
                 THEN <<"remove " \o NumToString(Len(uniqueRemoved)) \o " items">>
                 ELSE <<"remove " \o NumToString(Len(uniqueRemoved)) \o " items from "
                        \o fileName>>
        parts == addPart \o removePart
        fallback ==
            IF Len(added) > 0 THEN <<"update " \o fileName>>
            ELSE IF Len(removed) > 0 THEN <<"clean up " \o fileName>>
            ELSE <<"modify " \o fileName>>
    IN  Join(IF Len(parts) = 0 THEN fallback ELSE parts, " and ")

\* primaryChange.file.split('/').pop() || primaryChange.file
BaseName(file) ==
    IF Last(SplitOn(file, "/")) = "" THEN file ELSE Last(SplitOn(file, "/"))

analyzeSpecificChanges(diff) ==
    LET fileChanges == extractFileChanges(diff)
    IN  IF Len(fileChanges) = 0 THEN FallbackMessage
        ELSE detectCommitType(fileChanges[1]) \o ": "
             \o buildSpecificDescription(fileChanges[1], BaseName(fileChanges[1].file))

----------------------------------------------------------------------------
(* CommitMessageGenerator.generateCommitMessage *)

\* Texts `git diff --cached` can print
StagedDiffs ==
    {"",
     " \n",
     "+bare line outside any file\n",
     "--- a/README.md\n+++ b/README.md\n+Forjex creates repositories\n",
     "--- a/src/utils.ts\n+++ b/src/utils.ts\n+function foo() {}\n",
     "--- a/src/app.ts\n+++ b/src/app.ts\n-const old = 1\n-legacy(old, value)\n",
     "--- a/src/api.ts\n+++ b/src/api.ts\n+function a() {}\n+class B {}\n+import c from 'lib/c'\n",
     "--- a/src/app.test.ts\n+++ b/src/app.test.ts\n+function foo() {}\n",
     "--- a/src/theme.css\n+++ b/src/theme.css\n-legacy(old, value)\n",
     "--- a/src/bugfix.ts\n+++ b/src/bugfix.ts\n+function foo() {}\n"}

\* Texts `git diff` can print
UnstagedDiffs == {"", "\n  ", "--- a/x.ts\n+++ b/x.ts\n+let x = 2\n"}

\* a variant: the emptiness test without trim()
IsBlankNoTrim(text) == text = ""

\* !diff.trim()
IsBlank(text) == Trim(text) = ""

\* a variant: no try/catch, the exception reaches initAndPush
GenFailPropagates == "124:catch"

\* the try block of generateCommitMessage is left through its catch (line 35)
GenFailNext == "35:genCatch"

\* return 'chore: update code' in the catch block (line 37)
CatchResult == FallbackMessage

\* const diff = execSync('git diff --cached')
GenReadStaged ==
    /\ pc = "76:generate"
    /\ \/ \E d \in StagedDiffs :
             /\ gen' = [gen EXCEPT !.diff = d, !.trace = Append(@, "readStaged")]
             /\ pc' = IF IsBlank(d) THEN "21:genUnstaged" ELSE "30:genAnalyze"
       \/ /\ gen' = [gen EXCEPT !.trace = Append(@, "readStagedThrows")]
          /\ pc' = GenFailNext
    /\ UNCHANGED <<synth, forge, svc, waiting, inflight, repoUrl, isExistingRepo, locals, thrown, outcome,
                   raised, warnings, log, invocation, base, start, world>>

\* const unstagedDiff = execSync('git diff'); both blank: return the fallback
GenReadUnstaged ==
    /\ pc = "21:genUnstaged"
    /\ \/ \E d \in UnstagedDiffs :
             /\ gen' = [gen EXCEPT !.unstagedDiff = d,
                                   !.trace = Append(@, "readUnstaged"),
                                   !.result = IF IsBlank(d) THEN FallbackMessage ELSE @]
             /\ pc' = IF IsBlank(d) THEN "82:commit" ELSE "30:genAnalyze"
       \/ /\ gen' = [gen EXCEPT !.trace = Append(@, "readUnstagedThrows")]
          /\ pc' = GenFailNext
    /\ UNCHANGED <<synth, forge, svc, waiting, inflight, repoUrl, isExistingRepo, locals, thrown, outcome,
                   raised, warnings, log, invocation, base, start, world>>

\* a variant: the unstaged diff is analysed when nothing is staged
AnalyzedTextOrUnstaged(g) == IF IsBlank(g.diff) THEN g.unstagedDiff ELSE g.diff

\* the argument of analyzeSpecificChanges (line 30): the staged diff
AnalyzedText(g) == g.diff

\* const commitMessage = this.analyzeSpecificChanges(diff); return commitMessage.
\* The call is inside the try block: a runtime exception raised while it runs
\* (the code throws none itself) leaves through the catch
GenAnalyze ==
    /\ pc = "30:genAnalyze"
    /\ \/ /\ gen' = [gen EXCEPT !.trace = Append(@, "analyze"),
                                !.result = analyzeSpecificChanges(AnalyzedText(gen))]
          /\ pc' = "82:commit"
       \/ /\ gen' = [gen EXCEPT !.trace = Append(@, "analyzeThrows")]
          /\ pc' = GenFailNext
    /\ UNCHANGED <<synth, forge, svc, waiting, inflight, repoUrl, isExistingRepo, locals, thrown, outcome,
                   raised, warnings, log, invocation, base, start, world>>

\* catch (error) { return 'chore: update code' }
GenCatch ==
    /\ pc = "35:genCatch"
    /\ gen' = [gen EXCEPT !.trace = Append(@, "catch"), !.result = CatchResult]
    /\ pc' = "82:commit"
    /\ UNCHANGED <<synth, forge, svc, waiting, inflight, repoUrl, isExistingRepo, locals, thrown, outcome,
                   raised, warnings, log, invocation, base, start, world>>

----------------------------------------------------------------------------
(* GitService.initAndPush: the steps of the task *)

Snapshot == [gitDir |-> gitDir, branches |-> branches, origin |-> origin]

Begin(url, existing) ==
    /\ repoUrl' = url
    /\ isExistingRepo' = existing
    /\ pc' = FirstStep(existing)
    /\ waiting' = FALSE
    /\ locals' = NoLocals
    /\ thrown' = NoError
    /\ outcome' = "none"
    /\ raised' = NoError
    /\ warnings' = <<>>
    /\ log' = <<>>
    /\ gen' = NoGen
    /\ invocation' = invocation + 1
    /\ start' = Snapshot
    /\ UNCHANGED <<synth, forge, svc, inflight, world>>

\* forgeCommand calls initAndPush(repoUrl, isExisting)
Start ==
    /\ pc = "idle"
    /\ \E url \in RepoUrls, existing \in BOOLEAN : Begin(url, existing)
    /\ base' = Snapshot

\* The user runs the command again after a failure, with the same inputs
Retry ==
    /\ pc = "done"
    /\ outcome = "Failed"
    /\ inflight = {}
    /\ invocation < MaxInvocations
    /\ Begin(repoUrl, isExistingRepo)
    /\ UNCHANGED base

\* const isRepo = await this.isGitRepository()  (existsSync('.git'))
IsGitRepository ==
    /\ pc = "45:isGitRepository"
    /\ locals' = [locals EXCEPT !.isRepo = gitDir]
    /\ pc' = AfterIsRepo(gitDir)
    /\ UNCHANGED <<synth, forge, svc, waiting, inflight, repoUrl, isExistingRepo, thrown, outcome, raised,
                   warnings, log, invocation, base, start, world, gen>>

\* The task calls simple-git at the site it has reached
Issue ==
    /\ pc \in GitSites
    /\ ~waiting
    /\ pc \notin inflight
    /\ inflight' = inflight \cup {pc}
    /\ log' = Append(log, [site |-> pc, op |-> Op(pc), arg |-> Arg(pc),
                           res |-> "pending", err |-> NoError])
    /\ IF Awaited(pc)
       THEN waiting' = TRUE /\ pc' = pc
       ELSE waiting' = FALSE /\ pc' = OkNext(pc, locals)
    /\ UNCHANGED <<synth, forge, svc, repoUrl, isExistingRepo, locals, thrown, outcome, raised, warnings,
                   invocation, base, start, world, gen>>

\* catch (pullError) { if (!message.includes(...)) console.log(warning) }
PullCatch ==
    /\ pc = "89:pullCatch"
    /\ warnings' = IF PullWarns(thrown.msg)
                   THEN Append(warnings, "Could not pull: " \o thrown.msg)
                   ELSE warnings
    /\ pc' = AfterPullCatch(thrown.msg)
    /\ UNCHANGED <<synth, forge, svc, waiting, inflight, repoUrl, isExistingRepo, locals, thrown, outcome,
                   raised, log, invocation, base, start, world, gen>>

\* spinner.succeed(...): the promise resolves
Succeed ==
    /\ pc = "123:succeed"
    /\ outcome' = "Done"
    /\ pc' = "done"
    /\ UNCHANGED <<synth, forge, svc, waiting, inflight, repoUrl, isExistingRepo, locals, thrown, raised,
                   warnings, log, invocation, base, start, world, gen>>

\* catch (error) { spinner.fail(...); throw error }: the promise rejects
Catch ==
    /\ pc = "124:catch"
    /\ outcome' = "Failed"
    /\ raised' = Rethrown(thrown)
    /\ pc' = "done"
    /\ UNCHANGED <<synth, forge, svc, waiting, inflight, repoUrl, isExistingRepo, locals, thrown, warnings,
                   log, invocation, base, start, world, gen>>

----------------------------------------------------------------------------
(* The name-status based CommitMessageGenerator (src/unnamed/part_004) *)

\* str.split(sep).filter(Boolean)
RECURSIVE NonEmpty(_)
NonEmpty(seq) ==
    IF Len(seq) = 0 THEN <<>>
    ELSE IF seq[1] = "" THEN NonEmpty(Tail(seq))
    ELSE <<seq[1]>> \o NonEmpty(Tail(seq))

NoFiles == [added |-> <<>>, modified |-> <<>>, deleted |-> <<>>]

\* the forEach of parseFileStatus from line i on
RECURSIVE SortByStatus(_, _, _)
SortByStatus(lines, i, files) ==
    IF i > Len(lines) THEN files
    ELSE LET parts == SplitOn(lines[i], "\t")
             status == parts[1]
             file == Join(Tail(parts), "\t")
         IN  SortByStatus(lines, i + 1,
                IF StartsWith(status, "A") THEN [files EXCEPT !.added = Append(@, file)]
                ELSE IF StartsWith(status, "M")
                     THEN [files EXCEPT !.modified = Append(@, file)]
                ELSE IF StartsWith(status, "D")
                     THEN [files EXCEPT !.deleted = Append(@, file)]
                ELSE files)

parseFileStatus(fileStatus) ==
    SortByStatus(NonEmpty(SplitOn(Trim(fileStatus), "\n")), 1, NoFiles)

\* Array.prototype.some
Some(seq, P(_)) == \E k \in 1..Len(seq) : P(seq[k])

\* a variant: only files of a docs directory are documentation
IsDocsPathByDirectory(f) == StartsWith(f, "docs/")

IsDocsPath(f) == Includes(f, "README") \/ EndsWith(f, ".md")

IsTestPath(f) == Includes(f, "test") \/ Includes(f, ".spec.") \/ Includes(f, ".test.")

IsStylePath(f) == EndsWith(f, ".css") \/ EndsWith(f, ".scss") \/ Includes(f, "style")

IsConfigPath(f) == Includes(f, "config") \/ Includes(f, "package.json")

IsFixPath(f) == Includes(ToLowerCase(f), "fix") \/ Includes(ToLowerCase(f), "bug")

RefactorFactor == 2

\* a variant: the refactor rule is tested before the fix rule
detectCommitTypeRefactorFirst(files, changes) ==
    LET allFiles == files.added \o files.modified \o files.deleted
    IN  IF Some(allFiles, IsDocsPath) THEN "docs"
        ELSE IF Some(allFiles, IsTestPath) THEN "test"
        ELSE IF Some(allFiles, IsStylePath) THEN "style"
        ELSE IF Some(allFiles, IsConfigPath) THEN "chore"
        ELSE IF \/ Len(changes.functionsAdded) > 0
                \/ Len(changes.classesAdded) > 0
                \/ Len(changes.componentsAdded) > 0
                \/ Len(files.added) > 0
             THEN "feat"
        ELSE IF changes.deletedLines > changes.addedLines * RefactorFactor THEN "refactor"
        ELSE IF \/ Some(allFiles, IsFixPath)
                \/ changes.deletedLines > changes.addedLines /\ changes.addedLines > 0
             THEN "fix"
        ELSE "chore"

detectCommitTypeDetailed(files, changes) ==
    LET allFiles == files.added \o files.modified \o files.deleted
    IN  IF Some(allFiles, IsDocsPath) THEN "docs"
        ELSE IF Some(allFiles, IsTestPath) THEN "test"
        ELSE IF Some(allFiles, IsStylePath) THEN "style"
        ELSE IF Some(allFiles, IsConfigPath) THEN "chore"
        ELSE IF \/ Len(changes.functionsAdded) > 0
                \/ Len(changes.classesAdded) > 0
                \/ Len(changes.componentsAdded) > 0
                \/ Len(files.added) > 0
             THEN "feat"
        ELSE IF \/ Some(allFiles, IsFixPath)
                \/ changes.deletedLines > changes.addedLines /\ changes.addedLines > 0
             THEN "fix"
        ELSE IF changes.deletedLines > changes.addedLines * RefactorFactor THEN "refactor"
        ELSE "chore"

\* the index of the last "." of name, 0 when there is none
LastDot(name) ==
    IF \E k \in 1..Len(name) : Char(name, k) = "."
    THEN CHOOSE k \in 1..Len(name) :
            /\ Char(name, k) = "."
            /\ \A j \in (k + 1)..Len(name) : Char(name, j) # "."
    ELSE 0

\* path.split('/').pop()?.replace(/\.[^/.]+$/, '')
FileStem(path) ==
    LET name == Last(SplitOn(path, "/"))
    IN  IF LastDot(name) > 0 /\ LastDot(name) < Len(name)
        THEN SubSeq(name, 1, LastDot(name) - 1)
        ELSE name

\* list.slice(0, 2)
FirstTwo(list) == SubSeq(list, 1, IF Len(list) < 2 THEN Len(list) ELSE 2)

\* list.map(i => i.split('/').pop())
RECURSIVE LastSegments(_)
LastSegments(list) ==
    IF Len(list) = 0 THEN <<>>
    ELSE <<Last(SplitOn(list[1], "/"))>> \o LastSegments(Tail(list))

buildDescription(files, changes) ==
    LET plural(list, one, many) == IF Len(list) > 1 THEN many ELSE one
        code ==
            IF Len(changes.componentsAdded) > 0
            THEN <<"add " \o Join(FirstTwo(changes.componentsAdded), ", ")
                   \o plural(changes.componentsAdded, " component", " components")>>
            ELSE IF Len(changes.classesAdded) > 0
            THEN <<"add " \o Join(FirstTwo(changes.classesAdded), ", ")
                   \o plural(changes.classesAdded, " class", " classes")>>
            ELSE IF Len(changes.functionsAdded) > 0
            THEN <<"add " \o Join(FirstTwo(changes.functionsAdded), ", ")
                   \o plural(changes.functionsAdded, " function", " functions")>>
            ELSE <<>>
        deleted ==
            IF Len(changes.functionsDeleted) > 0
            THEN <<"remove " \o NumToString(Len(changes.functionsDeleted))
                   \o plural(changes.functionsDeleted, " function", " functions")>>
            ELSE <<>>
        imports ==
            IF Len(changes.importsAdded) > 0 /\ Len(code \o deleted) = 0
            THEN <<"add " \o Join(LastSegments(FirstTwo(changes.importsAdded)), ", ")
                   \o plural(changes.importsAdded, " import", " imports")>>
            ELSE <<>>
        byFile ==
            (IF Len(files.added) = 0 THEN <<>>
             ELSE IF Len(files.added) = 1 THEN <<"add " \o FileStem(files.added[1])>>
             ELSE <<"add " \o NumToString(Len(files.added)) \o " files">>)
            \o
            (IF Len(files.modified) = 0 THEN <<>>
             ELSE IF Len(files.modified) = 1
                  THEN <<"update " \o FileStem(files.modified[1])>>
             ELSE <<"update " \o NumToString(Len(files.modified)) \o " files">>)
            \o
            (IF Len(files.deleted) = 0 THEN <<>>
             ELSE <<"remove " \o NumToString(Len(files.deleted))
                    \o plural(files.deleted, " file", " files")>>)
        parts == IF Len(code \o deleted \o imports) = 0 THEN byFile
                 ELSE code \o deleted \o imports
    IN  IF Len(parts) > 0 THEN Join(parts, " and ") ELSE "update code"

----------------------------------------------------------------------------
(* One call of the message synthesis on given texts, step by step:         *)
(* analyzeSpecificChanges(diff) of commit-generator.ts ("specific") and    *)
(* analyzeDetailedChanges(diff, fileStatus) of part_004 ("detailed")       *)

MaxDiffLines == 4

MaxLineCount == 3

\* File header lines of `git diff`
DiffHeaders ==
    {"+++ b/README.md", "+++ b/src/utils.ts", "+++ b/src/app.test.ts",
     "+++ b/src/theme.css", "+++ b/package.json"}

\* Added and removed lines of `git diff`
ContentLines ==
    {"+function foo() {}",
     "+function handleButton() {}",
     "+class Foo {}",
     "+import x from 'lib/mod'",
     "+<Card title />",
     "+const [n, setN] = useState(0)",
     "+Forjex creates repositories",
     "-function foo() {}",
     "-legacy(old, value)"}

DiffLines == DiffHeaders \cup ContentLines

SeqsUpTo(S, n) == UNION {[1..k -> S] : k \in 0..n}

\* the text whose lines are ls, each ended by a newline
RECURSIVE DiffText(_)
DiffText(ls) == IF Len(ls) = 0 THEN "" ELSE ls[1] \o "\n" \o DiffText(Tail(ls))

\* Diffs of several files, each with one change
ExampleDiffs ==
    {"--- /dev/null\n+++ b/utils.ts\n+function foo() {}\n",
     "+++ b/a/x.ts\n+function foo() {}\n+++ b/a/y.ts\n+class Foo {}\n+++ b/b/z.ts\n+class Foo {}\n",
     "+++ b/a/x.ts\n+function foo() {}\n+++ b/b/y.ts\n+class Foo {}\n"}

\* Texts `git diff --cached` can print, by line
DiffTexts == {DiffText(ls) : ls \in SeqsUpTo(DiffLines, MaxDiffLines)} \cup ExampleDiffs

\* Texts `git diff --cached --name-status` can print
StatusListings ==
    {"",
     "M\tREADME.md\n",
     "A\tREADME.md\n",
     "D\tREADME.md\n",
     "A\tutils.ts\n",
     "M\tsrc/utils.ts\n",
     "D\tsrc/utils.ts\n",
     "M\tsrc/utils.ts\nM\tREADME.md\n",
     "M\tsrc/app.test.ts\n",
     "M\tsrc/theme.css\n",
     "M\tpackage.json\n",
     "M\tsrc/bugfix.ts\n",
     "A\ta/x.ts\nA\ta/y.ts\nA\tb/z.ts\n",
     "A\ta/x.ts\nA\tb/y.ts\n"}

\* Values extractKeyChanges can return: every list holds distinct names, and a
\* list of added (deleted) names is empty when no line was added (deleted)
KeyChanges ==
    {c \in [functionsAdded : {<<>>, <<"foo">>, <<"foo", "bar">>},
            functionsDeleted : {<<>>, <<"old">>},
            importsAdded : {<<>>, <<"lib/mod">>},
            classesAdded : {<<>>, <<"Foo">>},
            componentsAdded : {<<>>, <<"Card">>},
            addedLines : 0..MaxLineCount,
            deletedLines : 0..MaxLineCount] :
        /\ c.addedLines = 0 =>
              Len(c.functionsAdded \o c.importsAdded \o c.classesAdded
                  \o c.componentsAdded) = 0
        /\ c.deletedLines = 0 => Len(c.functionsDeleted) = 0}

NoKeyChanges ==
    [functionsAdded |-> <<>>, functionsDeleted |-> <<>>, importsAdded |-> <<>>,
     classesAdded |-> <<>>, componentsAdded |-> <<>>, addedLines |-> 0,
     deletedLines |-> 0]

NoSynth ==
    [version |-> "", step |-> "idle", diff |-> "", fileStatus |-> "",
     keyChanges |-> NoKeyChanges, files |-> NoFiles, fileChanges |-> <<>>,
     type |-> "", description |-> "", message |-> ""]

task == <<pc, waiting, inflight, repoUrl, isExistingRepo, locals, thrown, outcome,
          raised, warnings, log, invocation, base, start, gitDir, head, branches,
          origin, commits, upstream, gen>>

\* const fileChanges = this.extractFileChanges(diff), and the early return
ExtractFileChanges ==
    /\ synth.version = "specific" /\ synth.step = "called"
    /\ LET fileChanges == extractFileChanges(synth.diff)
       IN  synth' = IF Len(fileChanges) = 0
                    THEN [synth EXCEPT !.step = "returned", !.message = FallbackMessage]
                    ELSE [synth EXCEPT !.step = "extracted", !.fileChanges = fileChanges]
    /\ UNCHANGED <<task, forge, svc>>

\* const type = this.detectCommitType(primaryChange)
DetectCommitType ==
    /\ synth.version = "specific" /\ synth.step = "extracted"
    /\ synth' = [synth EXCEPT !.step = "typed",
                              !.type = detectCommitType(synth.fileChanges[1])]
    /\ UNCHANGED <<task, forge, svc>>

\* const description = this.buildSpecificDescription(primaryChange, fileName)
\* and the return
BuildSpecificDescription ==
    /\ synth.version = "specific" /\ synth.step = "typed"
    /\ LET description ==
              buildSpecificDescription(synth.fileChanges[1],
                                       BaseName(synth.fileChanges[1].file))
       IN  synth' = [synth EXCEPT !.step = "returned",
                                  !.description = description,
                                  !.message = synth.type \o ": " \o description]
    /\ UNCHANGED <<task, forge, svc>>

\* const files = this.parseFileStatus(fileStatus); synth.keyChanges is what
\* extractKeyChanges(diff) returned
ParseFileStatus ==
    /\ synth.version = "detailed" /\ synth.step = "called"
    /\ synth' = [synth EXCEPT !.step = "extracted",
                              !.files = parseFileStatus(synth.fileStatus)]
    /\ UNCHANGED <<task, forge, svc>>

\* const type = this.detectCommitType(files, changes)
DetectCommitTypeDetailed ==
    /\ synth.version = "detailed" /\ synth.step = "extracted"
    /\ synth' = [synth EXCEPT !.step = "typed",
                    !.type = detectCommitTypeDetailed(synth.files, synth.keyChanges)]
    /\ UNCHANGED <<task, forge, svc>>

\* const description = this.buildDescription(files, changes) and the return
BuildDescription ==
    /\ synth.version = "detailed" /\ synth.step = "typed"
    /\ LET description == buildDescription(synth.files, synth.keyChanges)
       IN  synth' = [synth EXCEPT !.step = "returned",
                                  !.description = description,
                                  !.message = synth.type \o ": " \o description]
    /\ UNCHANGED <<task, forge, svc>>

----------------------------------------------------------------------------
(* forgeCommand (src/src/commands/forge.ts) *)

\* String.prototype.replace with a string pattern: the first occurrence only
ReplaceFirst(s, sub, by) ==
    IF ~Includes(s, sub) THEN s
    ELSE LET i == CHOOSE k \in 1..(Len(s) - Len(sub) + 1) :
                      /\ SubSeq(s, k, k + Len(sub) - 1) = sub
                      /\ \A j \in 1..(k - 1) : SubSeq(s, j, j + Len(sub) - 1) # sub
         IN  SubSeq(s, 1, i - 1) \o by \o SubSeq(s, i + Len(sub), Len(s))

\* the longest run of characters from position i on, none of which is in stop
RECURSIVE RunFrom(_, _, _)
RunFrom(s, i, stop) ==
    IF i > Len(s) \/ SubSeq(s, i, i) \in stop THEN ""
    ELSE SubSeq(s, i, i) \o RunFrom(s, i + 1, stop)

\* /github\.com[:/]([^/]+)\/([^/.]+)/ tried at position i: the two groups,
\* or <<>> when the pattern does not match there
RepoInfoAt(s, i) ==
    LET host   == "github.com"
        o      == i + Len(host) + 1
        owner  == RunFrom(s, o, {"/"})
        n      == o + Len(owner) + 1
        name   == RunFrom(s, n, {"/", "."})
    IN  IF /\ o - 1 <= Len(s)
           /\ SubSeq(s, i, i + Len(host) - 1) = host
           /\ SubSeq(s, o - 1, o - 1) \in {":", "/"}
           /\ owner # ""
           /\ n - 1 <= Len(s)
           /\ SubSeq(s, n - 1, n - 1) = "/"
           /\ name # ""
        THEN <<owner, name>>
        ELSE <<>>

\* Extracts owner and repository name from a GitHub URL; owner "" stands for
\* the thrown Error('Invalid GitHub repository URL')
extractRepoInfo(url) ==
    LET hits == {i \in 1..Len(url) : RepoInfoAt(url, i) # <<>>}
    IN  IF hits = {} THEN [owner |-> "", name |-> ""]
        ELSE LET first == CHOOSE i \in hits : \A j \in hits : i <= j
                 match == RepoInfoAt(url, first)
             IN  [owner |-> match[1], name |-> ReplaceFirst(match[2], ".git", "")]

\* the validate function of the 'Enter the existing repository URL:' prompt
ValidRepoUrlInput(input) == input # "" /\ Includes(input, "github.com")

\* what `git config --get remote.origin.url` printed; "" when the call failed
\* and getRemoteUrl returned null
ExistingRemotes ==
    {"", "https://github.com/octocat/demo.git", "git@github.com:octocat/demo.git",
     "https://gitlab.com/octocat/demo.git"}

\* what the user may type at the URL prompt
EnteredUrls ==
    {u \in {"https://github.com/octocat/demo", "https://github.com/octocat/.github",
            "github.com/octocat", "octocat/demo"} : ValidRepoUrlInput(u)}

\* the clone_url of the repository createRepository created, and its owner
CreatedRepoUrl == "https://github.com/octocat/demo.git"
CreatedRepoName == "demo"
UserLogin == "octocat"

ProjectTypes == {"nodejs", "python", "unknown"}

\* the production URL found in the output of `vercel --prod --yes`, '' if none
DeploymentUrls == {"https://demo.vercel.app", ""}

NoForge ==
    [pc |-> "idle", repoChoice |-> "", addCICD |-> FALSE, deployVercel |-> FALSE,
     repoUrl |-> "", repoOwner |-> "", repoName |-> "", projectType |-> "",
     isRepo |-> FALSE, declined |-> FALSE,
     vercelUrl |-> "", steps |-> <<>>, failed |-> {}, warned |-> {},
     error |-> "", ending |-> ""]

\* the next call site after the repository step, the CI/CD step and the push
\* step (forge.ts:206, 221 and 255: the steps the user did not ask for are skipped)
AfterPush(f) == IF f.deployVercel THEN "258:authenticate" ELSE "282:summary"

AfterCICD(f) == IF f.repoUrl # "" THEN "250:initAndPush" ELSE AfterPush(f)

AfterDetect(f) == IF f.addCICD THEN "214:generate" ELSE AfterCICD(f)

\* a call forgeCommand awaits has thrown: control passes to its catch block
Throws(f, step, kind) ==
    [f EXCEPT !.pc = "303:catch", !.steps = Append(@, step),
              !.failed = @ \cup {kind}, !.error = kind]

\* forge.ts:84, GitHubService.authenticate: resolves (cached token or device
\* flow), or fails and rethrows
GitHubAuthenticate ==
    /\ forge.pc = "84:authenticate"
    /\ \/ forge' = [forge EXCEPT !.steps = Append(@, "authenticate"),
                                 !.pc = IF forge.repoChoice = "github-new"
                                        THEN "138:createRepository"
                                        ELSE "158:getRemoteUrl"]
       \/ forge' = Throws(forge, "authenticate", "authentication")
    /\ UNCHANGED <<task, synth, svc>>

\* forge.ts:138-146, new repository: createRepository, getUserInfo,
\* createLocalFiles
CreateRepository ==
    /\ forge.pc = "138:createRepository"
    /\ \/ forge' = [forge EXCEPT !.steps = Append(@, "createRepository"),
                                 !.repoUrl = CreatedRepoUrl,
                                 !.repoName = CreatedRepoName,
                                 !.repoOwner = UserLogin,
                                 !.pc = "203:detect"]
       \/ \E kind \in {"nameConflict", "createRepository", "userInfo", "localFiles"} :
             forge' = Throws(forge, "createRepository", kind)
    /\ UNCHANGED <<task, synth, svc>>

\* forge.ts:157-199, existing repository: the remote found in the directory if
\* the user accepts it, the URL typed at the prompt otherwise
SelectRepository ==
    /\ forge.pc = "158:getRemoteUrl"
    /\ \E existingRemote \in ExistingRemotes, useExisting \in BOOLEAN,
          existingRepoUrl \in EnteredUrls :
          LET url      == IF existingRemote # "" /\ useExisting THEN existingRemote
                          ELSE existingRepoUrl
              repoInfo == extractRepoInfo(url)
              looked   == [forge EXCEPT !.repoUrl = url,
                                        !.failed = IF existingRemote = ""
                                                   THEN @ \cup {"remoteLookup"} ELSE @]
          IN  forge' = IF repoInfo.owner = ""
                       THEN Throws(looked, "selectRepository", "urlParsing")
                       ELSE [looked EXCEPT !.steps = Append(@, "selectRepository"),
                                           !.repoOwner = repoInfo.owner,
                                           !.repoName = repoInfo.name,
                                           !.pc = "203:detect"]
    /\ UNCHANGED <<task, synth, svc>>

\* forge.ts:203, ProjectDetector.detect: never throws, a failure inside it
\* yields the type 'unknown'
DetectProject ==
    /\ forge.pc = "203:detect"
    /\ \/ \E type \in ProjectTypes :
             forge' = [forge EXCEPT !.steps = Append(@, "detect"),
                                    !.projectType = type,
                                    !.pc = AfterDetect(forge)]
       \/ forge' = [forge EXCEPT !.steps = Append(@, "detect"),
                                 !.projectType = "unknown",
                                 !.failed = @ \cup {"detection"},
                                 !.pc = AfterDetect(forge)]
    /\ UNCHANGED <<task, synth, svc>>

\* forge.ts:207-218, CICDGenerator.generate: writes the workflow or fails and
\* rethrows; skipped with a warning when the project type is unknown
GenerateCICD ==
    /\ forge.pc = "214:generate"
    /\ IF forge.projectType # "unknown"
       THEN \/ forge' = [forge EXCEPT !.steps = Append(@, "generate"),
                                      !.pc = AfterCICD(forge)]
            \/ forge' = Throws(forge, "generate", "cicd")
       ELSE forge' = [forge EXCEPT !.warned = @ \cup {"cicdSkipped"},
                                   !.pc = AfterCICD(forge)]
    /\ UNCHANGED <<task, synth, svc>>

\* a variant: the return after the declined prompt is missing, the command
\* goes on without pushing
PushStepDeclineFallsThrough ==
    /\ forge.pc = "250:initAndPush"
    /\ \E isRepo \in BOOLEAN, forceReinit \in BOOLEAN :
          LET isExisting == forge.repoChoice = "github-existing"
              asked      == [forge EXCEPT !.isRepo = isRepo,
                                          !.declined = isRepo /\ ~isExisting /\ ~forceReinit]
          IN  IF asked.declined
              THEN forge' = [asked EXCEPT !.pc = AfterPush(forge)]
              ELSE \/ forge' = [asked EXCEPT !.steps = Append(@, "initAndPush"),
                                             !.pc = AfterPush(forge)]
                   \/ forge' = Throws(asked, "initAndPush", "git")
    /\ UNCHANGED <<task, synth, svc>>

\* a variant: a rejected initAndPush is caught at the push step and the
\* command goes on
PushStepSwallowsFailure ==
    /\ forge.pc = "250:initAndPush"
    /\ \E isRepo \in BOOLEAN, forceReinit \in BOOLEAN :
          LET isExisting == forge.repoChoice = "github-existing"
              asked      == [forge EXCEPT !.isRepo = isRepo,
                                          !.declined = isRepo /\ ~isExisting /\ ~forceReinit]
          IN  IF asked.declined
              THEN forge' = [asked EXCEPT !.pc = "done", !.ending = "setupComplete"]
              ELSE \/ forge' = [asked EXCEPT !.steps = Append(@, "initAndPush"),
                                             !.pc = AfterPush(forge)]
                   \/ forge' = [asked EXCEPT !.steps = Append(@, "initAndPush"),
                                             !.failed = @ \cup {"git"},
                                             !.pc = AfterPush(forge)]
    /\ UNCHANGED <<task, synth, svc>>

\* forge.ts:221-252: in a directory that is already a repository the user who
\* created a new repository is asked first and the command returns when they
\* decline; initAndPush ends Done (resolves) or Failed (rejects)
PushStep ==
    /\ forge.pc = "250:initAndPush"
    /\ \E isRepo \in BOOLEAN, forceReinit \in BOOLEAN :
          LET isExisting == forge.repoChoice = "github-existing"
              asked      == [forge EXCEPT !.isRepo = isRepo,
                                          !.declined = isRepo /\ ~isExisting /\ ~forceReinit]
          IN  IF asked.declined
              THEN forge' = [asked EXCEPT !.pc = "done", !.ending = "setupComplete"]
              ELSE \/ forge' = [asked EXCEPT !.steps = Append(@, "initAndPush"),
                                             !.pc = AfterPush(forge)]
                   \/ forge' = Throws(asked, "initAndPush", "git")
    /\ UNCHANGED <<task, synth, svc>>

\* forge.ts:258, VercelService.authenticate: resolves, or fails and rethrows
VercelAuthenticate ==
    /\ forge.pc = "258:authenticate"
    /\ \/ forge' = [forge EXCEPT !.steps = Append(@, "vercelAuthenticate"),
                                 !.pc = "267:deploy"]
       \/ forge' = Throws(forge, "vercelAuthenticate", "vercelAuth")
    /\ UNCHANGED <<task, synth, svc>>

\* forge.ts:266-278: deployWithGitHub when repository, owner and name are known
\* (a failed link or git connect is a warning, a failed deployment is thrown),
\* deploy otherwise
Deploy ==
    /\ forge.pc = "267:deploy"
    /\ IF forge.repoUrl # "" /\ forge.repoOwner # "" /\ forge.repoName # ""
       THEN \E linkFails \in BOOLEAN, connectFails \in BOOLEAN :
               LET linked == [forge EXCEPT
                                 !.failed = @ \cup (IF linkFails THEN {"vercelLink"} ELSE {}),
                                 !.warned = @ \cup (IF linkFails THEN {"vercelLink"} ELSE {})]
               IN  \/ \E url \in DeploymentUrls :
                         forge' = [linked EXCEPT
                                      !.steps = Append(@, "deployWithGitHub"),
                                      !.failed = @ \cup (IF connectFails THEN {"gitConnect"} ELSE {}),
                                      !.warned = @ \cup (IF connectFails THEN {"gitConnect"} ELSE {}),
                                      !.vercelUrl = url,
                                      !.pc = "282:summary"]
                   \/ /\ ~connectFails
                      /\ forge' = Throws(linked, "deployWithGitHub", "vercelDeploy")
       ELSE \/ \E url \in DeploymentUrls :
                  forge' = [forge EXCEPT !.steps = Append(@, "deploy"),
                                         !.vercelUrl = url,
                                         !.pc = "282:summary"]
            \/ forge' = Throws(forge, "deploy", "vercelDeploy")
    /\ UNCHANGED <<task, synth, svc>>

\* forge.ts:282-301: the final summary
Summary ==
    /\ forge.pc = "282:summary"
    /\ forge' = [forge EXCEPT !.pc = "done", !.ending = "summary"]
    /\ UNCHANGED <<task, synth, svc>>

\* forge.ts:303-307: the error is logged and the process exits with status 1
ForgeCatch ==
    /\ forge.pc = "303:catch"
    /\ forge' = [forge EXCEPT !.pc = "done", !.ending = "exit"]
    /\ UNCHANGED <<task, synth, svc>>

----------------------------------------------------------------------------
(* GitHubService (src/src/services/github.ts) and the configuration file
   (src/src/utils/config.ts) *)

\* how many service methods one run calls
MaxCalls == 2

\* loadConfig returns null: no file, or a file that does not parse
NoConfig == [token |-> "", expiresAt |-> 0, vercelToken |-> "", file |-> FALSE]

\* Date.now(), in days
Times == {100, 500}

\* the lifetime given to a saved token, 365 * 24 * 60 * 60 * 1000 ms, in days
TokenLifetime == 365

\* the token a successful device flow returns
DeviceToken == "gho_device"

\* the contents ~/.forjex/config.json may have when a run starts; an absent
\* field is "" or 0, as falsy as undefined is
Configs ==
    {NoConfig} \cup
    [token : {"", "gho_cached"}, expiresAt : {0, 300}, vercelToken : {"", "authenticated"},
     file : {TRUE}]

\* a thrown Error: status is 0 when the error has no status property
Err(status, message) == [status |-> status, message |-> message]

NoResult == [kind |-> "none", value |-> "", error |-> Err(0, "")]

Returned(value) == [kind |-> "returned", value |-> value, error |-> Err(0, "")]

Threw(error) == [kind |-> "threw", value |-> "", error |-> error]

\* what the request that creates the repository may fail with
BackendErrors ==
    {Err(422, "Validation Failed"), Err(403, "Forbidden"),
     Err(500, "Server Error"), Err(0, "getaddrinfo ENOTFOUND api.github.com")}

NoServices ==
    [config |-> NoConfig, now |-> 0, octokit |-> "", isAuthenticated |-> FALSE,
     method |-> "", env |-> <<>>, calls |-> <<>>, written |-> FALSE, warned |-> <<>>,
     result |-> NoResult, n |-> 0, history |-> <<>>]

\* a method has returned or thrown: the run remembers which and how
Completed(s) == [s EXCEPT !.history = Append(@, <<s.method, s.result.kind>>)]

\* a method is entered: what the previous call left behind is cleared; env is
\* what the outside world will answer during this call
Enter(s, method, env) ==
    [s EXCEPT !.method = method, !.env = env, !.calls = <<>>, !.written = FALSE,
              !.warned = <<>>, !.result = NoResult, !.n = @ + 1]

\* config.ts:29-32
isTokenValidIgnoringExpiry(config, now) ==
    ~(config.token = "" \/ config.expiresAt = 0)

isTokenValid(config, now) ==
    IF config.token = "" \/ config.expiresAt = 0 THEN FALSE
    ELSE now < config.expiresAt

\* github.ts:71-98: whatever happens to the request, nothing is thrown
sendUserToAPI(s, sync) ==
    [s EXCEPT !.calls = Append(@, "sendUserToAPI"),
              !.warned = IF sync = "ok" THEN @ ELSE Append(@, sync)]

\* github.ts:14-69; env holds what the device flow, the user lookup, the write
\* of the configuration file and the dashboard answer
authenticate(s0, env) ==
    LET s == Enter(s0, "authenticate", env)
    IN  IF s.config.file /\ isTokenValid(s.config, s.now)
        THEN [s EXCEPT !.octokit = s.config.token, !.result = Returned("")]
        ELSE IF env.device # Err(0, "")
        THEN [s EXCEPT !.calls = <<"deviceFlow">>, !.result = Threw(env.device)]
        ELSE IF env.user # Err(0, "")
        THEN [s EXCEPT !.calls = <<"deviceFlow", "getAuthenticated">>,
                       !.octokit = DeviceToken,
                       !.result = Threw(env.user)]
        ELSE IF ~env.save
        THEN [s EXCEPT !.calls = <<"deviceFlow", "getAuthenticated", "saveConfig">>,
                       !.octokit = DeviceToken,
                       !.result = Threw(Err(0, "EACCES: permission denied"))]
        ELSE sendUserToAPI(
                 [s EXCEPT !.calls = <<"deviceFlow", "getAuthenticated", "saveConfig">>,
                           !.octokit = DeviceToken,
                           !.written = TRUE,
                           !.config = [token |-> DeviceToken,
                                       expiresAt |-> s.now + TokenLifetime,
                                       vercelToken |-> "", file |-> TRUE],
                           !.result = Returned("")],
                 env.sync)

\* github.ts:100-122; backend is the clone URL of the created repository or
\* the error the request failed with
createRepositoryPlain(s0, backend) ==
    LET s == Enter(s0, "createRepository", backend)
    IN  IF s.octokit = "" THEN [s EXCEPT !.result = Threw(Err(0, "Not authenticated"))]
        ELSE LET called == [s EXCEPT !.calls = <<"createForAuthenticatedUser">>]
             IN  IF backend.kind = "returned"
                 THEN [called EXCEPT !.result = Returned(backend.value)]
                 ELSE [called EXCEPT !.result = Threw(backend.error)]

createRepository(s0, backend) ==
    LET s == Enter(s0, "createRepository", backend)
    IN  IF s.octokit = "" THEN [s EXCEPT !.result = Threw(Err(0, "Not authenticated"))]
        ELSE LET called == [s EXCEPT !.calls = <<"createForAuthenticatedUser">>]
             IN  IF backend.kind = "returned"
                 THEN [called EXCEPT !.result = Returned(backend.value)]
                 ELSE IF backend.error.status = 422
                 THEN [called EXCEPT
                          !.result = Threw(Err(0, "Repository name already exists"))]
                 ELSE [called EXCEPT !.result = Threw(backend.error)]

\* what the device flow and the user lookup may fail with
AuthErrors == {Err(401, "Bad credentials"), Err(0, "getaddrinfo ENOTFOUND github.com")}

AuthEnvs ==
    [device : {Err(0, "")} \cup AuthErrors,
     user   : {Err(0, "")} \cup AuthErrors,
     save   : BOOLEAN,
     sync   : {"ok", "notOk", "failed"}]

Backends == {Returned(CreatedRepoUrl)} \cup {Threw(e) : e \in BackendErrors}

\* one call of GitHubService.authenticate
CallAuthenticate ==
    /\ svc.n < MaxCalls
    /\ \E env \in AuthEnvs : svc' = Completed(authenticate(svc, env))
    /\ UNCHANGED <<task, synth, forge>>

\* one call of GitHubService.createRepository
CallCreateRepository ==
    /\ svc.n < MaxCalls
    /\ \E backend \in Backends : svc' = Completed(createRepository(svc, backend))
    /\ UNCHANGED <<task, synth, forge>>

----------------------------------------------------------------------------
(* VercelService (src/src/services/vercel.ts, lines 217-443) *)

WhiteSpace == {" ", "\n", "\t", "\r"}

\* deployOutput.match(/https:\/\/[^\s]+/): the first match, '' without one
RECURSIVE FirstUrlFrom(_, _)
FirstUrlFrom(output, i) ==
    LET scheme == "https://"
        rest   == RunFrom(output, i + Len(scheme), WhiteSpace)
    IN  IF i + Len(scheme) - 1 > Len(output) THEN ""
        ELSE IF SubSeq(output, i, i + Len(scheme) - 1) = scheme /\ rest # ""
        THEN scheme \o rest
        ELSE FirstUrlFrom(output, i + 1)

FirstUrl(output) == FirstUrlFrom(output, 1)

\* what `vercel --prod --yes` may print
DeployOutputs ==
    {"Production: https://demo.vercel.app [2s]", "https://demo-abc.vercel.app\n",
     "Deployment complete"}

\* vercel.ts:224-261; env holds whether the CLI is installed, and whether its
\* installation, the login and the write of the configuration file succeed
vercelAuthenticate(s0, env) ==
    LET s == Enter(s0, "vercelAuthenticate", env)
        probe == IF env.cli THEN <<"vercel --version">>
                 ELSE <<"vercel --version", "npm install -g vercel">>
    IN  IF s.config.file /\ s.config.vercelToken # ""
        THEN [s EXCEPT !.isAuthenticated = TRUE, !.result = Returned("")]
        ELSE IF ~env.cli /\ ~env.install
        THEN [s EXCEPT !.calls = probe,
                       !.result = Threw(Err(0, "Command failed: npm install -g vercel"))]
        ELSE IF ~env.login
        THEN [s EXCEPT !.calls = Append(probe, "vercel login"),
                       !.result = Threw(Err(0, "Command failed: vercel login"))]
        ELSE IF ~env.save
        THEN [s EXCEPT !.calls = probe \o <<"vercel login", "saveConfig">>,
                       !.result = Threw(Err(0, "EACCES: permission denied"))]
        ELSE [s EXCEPT !.calls = probe \o <<"vercel login", "saveConfig">>,
                       !.written = TRUE,
                       !.config = [(IF s.config.file THEN s.config
                                    ELSE [NoConfig EXCEPT !.file = TRUE])
                                   EXCEPT !.vercelToken = "authenticated"],
                       !.isAuthenticated = TRUE,
                       !.result = Returned("")]

\* vercel.ts:303-371; env holds whether vercel.json can be written, whether
\* the link, the deployment and the git connect commands succeed, and what the
\* deployment printed
deployWithGitHubUnguarded(s0, env) ==
    LET s == Enter(s0, "deployWithGitHub", env)
        linked == [s EXCEPT !.calls = <<"createVercelConfig", "vercel link">>,
                            !.warned = IF env.link THEN <<>> ELSE <<"link">>]
        deployed == [linked EXCEPT !.calls = Append(@, "vercel --prod --yes")]
    IN  IF ~env.config
        THEN [s EXCEPT !.calls = <<"createVercelConfig">>,
                       !.result = Threw(Err(0, "EACCES: permission denied"))]
        ELSE IF ~env.deploy
        THEN [deployed EXCEPT !.result = Threw(Err(0, "Command failed: vercel --prod --yes"))]
        ELSE [deployed EXCEPT !.calls = Append(@, "vercel git connect"),
                              !.warned = IF env.connect THEN @ ELSE Append(@, "connect"),
                              !.result = Returned(FirstUrl(env.output))]

deployWithGitHub(s0, env) ==
    LET s == Enter(s0, "deployWithGitHub", env)
        linked == [s EXCEPT !.calls = <<"createVercelConfig", "vercel link">>,
                            !.warned = IF env.link THEN <<>> ELSE <<"link">>]
        deployed == [linked EXCEPT !.calls = Append(@, "vercel --prod --yes")]
    IN  IF ~s.isAuthenticated
        THEN [s EXCEPT !.result = Threw(Err(0, "Not authenticated with Vercel"))]
        ELSE IF ~env.config
        THEN [s EXCEPT !.calls = <<"createVercelConfig">>,
                       !.result = Threw(Err(0, "EACCES: permission denied"))]
        ELSE IF ~env.deploy
        THEN [deployed EXCEPT !.result = Threw(Err(0, "Command failed: vercel --prod --yes"))]
        ELSE [deployed EXCEPT !.calls = Append(@, "vercel git connect"),
                              !.warned = IF env.connect THEN @ ELSE Append(@, "connect"),
                              !.result = Returned(FirstUrl(env.output))]

VercelAuthEnvs == [cli : BOOLEAN, install : BOOLEAN, login : BOOLEAN, save : BOOLEAN]

DeployEnvs ==
    [config : BOOLEAN, link : BOOLEAN, deploy : BOOLEAN, connect : BOOLEAN,
     output : DeployOutputs]

\* one call of VercelService.authenticate
CallVercelAuthenticate ==
    /\ svc.n < MaxCalls
    /\ \E env \in VercelAuthEnvs : svc' = Completed(vercelAuthenticate(svc, env))
    /\ UNCHANGED <<task, synth, forge>>

\* one call of VercelService.deployWithGitHub
CallDeployWithGitHub ==
    /\ svc.n < MaxCalls
    /\ \E env \in DeployEnvs : svc' = Completed(deployWithGitHub(svc, env))
    /\ UNCHANGED <<task, synth, forge>>

----------------------------------------------------------------------------
(* The specification *)

\* The directory before the command runs: no repository, or a repository whose
\* HEAD is on a default branch (a fresh one has no branch with a commit yet)
Init ==
    /\ pc = "idle"
    /\ waiting = FALSE
    /\ inflight = {}
    /\ repoUrl = ""
    /\ isExistingRepo = FALSE
    /\ locals = NoLocals
    /\ thrown = NoError
    /\ outcome = "none"
    /\ raised = NoError
    /\ warnings = <<>>
    /\ log = <<>>
    /\ invocation = 0
    /\ gen = NoGen
    /\ commits = <<>>
    /\ upstream = ""
    /\ gitDir \in BOOLEAN
    /\ IF gitDir
       THEN /\ head \in DefaultBranches
            /\ branches \in SUBSET DefaultBranches
            /\ branches = {} \/ head \in branches
            /\ origin \in {""} \cup RepoUrls
       ELSE head = "" /\ branches = {} /\ origin = ""
    /\ base = Snapshot
    /\ start = Snapshot
    /\ synth = NoSynth
    /\ forge = NoForge
    /\ svc = NoServices

Next ==
    \/ Start
    \/ Retry
    \/ IsGitRepository
    \/ Issue
    \/ InitReturns
    \/ CheckoutLocalBranchReturns
    \/ CheckoutReturns
    \/ BranchReturns
    \/ GetRemotesReturns
    \/ RemoveRemoteReturns
    \/ AddRemoteReturns
    \/ AddReturns
    \/ CommitReturns
    \/ PullReturns
    \/ PushReturns
    \/ PullCatch
    \/ GenReadStaged
    \/ GenReadUnstaged
    \/ GenAnalyze
    \/ GenCatch
    \/ Succeed
    \/ Catch

Spec == Init /\ [][Next]_vars

\* initAndPush is not running
Idle ==
    /\ pc = "idle"
    /\ waiting = FALSE
    /\ inflight = {}
    /\ repoUrl = ""
    /\ isExistingRepo = FALSE
    /\ locals = NoLocals
    /\ thrown = NoError
    /\ outcome = "none"
    /\ raised = NoError
    /\ warnings = <<>>
    /\ log = <<>>
    /\ invocation = 0
    /\ gen = NoGen
    /\ commits = <<>>
    /\ upstream = ""
    /\ gitDir = TRUE
    /\ head = "main"
    /\ branches = {"main"}
    /\ origin = ""
    /\ base = Snapshot
    /\ start = Snapshot

\* One synthesis call on any of the texts, while initAndPush is not running
InitSynth ==
    /\ Idle
    /\ forge = NoForge
    /\ svc = NoServices
    /\ \/ \E d \in DiffTexts :
             synth = [NoSynth EXCEPT !.version = "specific", !.step = "called",
                                     !.diff = d]
       \/ \E fs \in StatusListings, c \in KeyChanges :
             synth = [NoSynth EXCEPT !.version = "detailed", !.step = "called",
                                     !.fileStatus = fs, !.keyChanges = c]

NextSynth ==
    \/ ExtractFileChanges
    \/ DetectCommitType
    \/ BuildSpecificDescription
    \/ ParseFileStatus
    \/ DetectCommitTypeDetailed
    \/ BuildDescription

SpecSynth == InitSynth /\ [][NextSynth]_vars

\* One run of forgeCommand on any answers to its first three prompts
\* (forge.ts:26-76), while initAndPush is not running
InitForge ==
    /\ Idle
    /\ synth = NoSynth
    /\ svc = NoServices
    /\ \E repoChoice \in {"github-new", "github-existing"},
          addCICD \in BOOLEAN, deployVercel \in BOOLEAN :
          forge = [NoForge EXCEPT !.pc = "84:authenticate",
                                  !.repoChoice = repoChoice,
                                  !.addCICD = addCICD,
                                  !.deployVercel = deployVercel]

NextForge ==
    \/ GitHubAuthenticate
    \/ CreateRepository
    \/ SelectRepository
    \/ DetectProject
    \/ GenerateCICD
    \/ PushStep
    \/ VercelAuthenticate
    \/ Deploy
    \/ Summary
    \/ ForgeCatch

SpecForge == InitForge /\ [][NextForge]_vars

\* Up to MaxCalls calls of the methods of one GitHubService and one
\* VercelService, in any order, on any configuration file
InitServices ==
    /\ Idle
    /\ synth = NoSynth
    /\ forge = NoForge
    /\ \E config \in Configs, now \in Times :
          svc = [NoServices EXCEPT !.config = config, !.now = now]

NextServices ==
    \/ CallAuthenticate
    \/ CallCreateRepository
    \/ CallVercelAuthenticate
    \/ CallDeployWithGitHub

SpecServices == InitServices /\ [][NextServices]_vars

----------------------------------------------------------------------------
(* Properties of initAndPush and of generateCommitMessage *)

IsMutating(e) == e.op \in MutatingOps

Succeeded(e) == e.res = "ok"

\* the calls of a log as <<method, argument>> pairs
Calls(entries) == [i \in DOMAIN entries |-> <<entries[i].op, entries[i].arg>>]

Issued(op) == \E i \in DOMAIN log : log[i].op = op

Done(op) == \E i \in DOMAIN log : log[i].op = op /\ log[i].res = "ok"

Failed(op) == \E i \in DOMAIN log : log[i].op = op /\ log[i].res = "failed"

Terminal == pc = "done"

FreshNewRepoRun == ~isExistingRepo /\ invocation = 1 /\ ~start.gitDir

NewRepoSequence(url) ==
    << <<"init", "">>, <<"checkoutLocalBranch", "main">>, <<"add", "">>,
       <<"commit", "Initial commit from Forjex">>, <<"addRemote", url>>,
       <<"push", "--set-upstream">> >>

C2_RemoteReassignedBeforeCommit ==
    (isExistingRepo /\ invocation >= 1 /\ start.origin \notin {"", repoUrl}) =>
        /\ \A i \in DOMAIN log :
              log[i].op \in {"add", "commit"} =>
                 \E j \in 1..(i - 1), k \in 1..(i - 1) :
                    /\ j < k
                    /\ log[j].op = "removeRemote" /\ log[j].res = "ok"
                    /\ log[k].op = "addRemote" /\ log[k].res = "ok"
                    /\ log[k].arg = repoUrl
        /\ Done("addRemote") => origin = repoUrl

C2_Witness ==
    /\ isExistingRepo
    /\ start.origin \notin {"", repoUrl}
    /\ Done("commit")
    /\ origin = repoUrl

\* C3: in existing-repo mode, an invocation whose commit call succeeded does not
\* end before push has been called, whether pull succeeded, failed with
\* "couldn't find remote ref" or failed otherwise.
C3_PushAttemptedAfterCommit ==
    (isExistingRepo /\ Done("commit") /\ pc \in {"123:succeed", "124:catch", "done"}) =>
        /\ Issued("pull")
        /\ Issued("push")
        /\ \A i \in DOMAIN log : log[i].op = "push" => log[i].arg = "--set-upstream"

C3_Witness ==
    /\ isExistingRepo
    /\ Terminal
    /\ \E i \in DOMAIN log :
          /\ log[i].op = "pull" /\ log[i].res = "failed"
          /\ ~Includes(log[i].err.msg, "couldn't find remote ref")
    /\ Issued("push")

\* C4: an invocation that has ended is Done if and only if its push call
\* succeeded, and is Failed otherwise.
C4_DoneIffPushSucceeded ==
    Terminal =>
        /\ outcome \in {"Done", "Failed"}
        /\ outcome = "Done" <=> Done("push")

C4_Witness ==
    /\ Terminal
    /\ outcome = "Done"
    /\ isExistingRepo
    /\ Failed("pull")

FatalOps == {"init", "getRemotes", "removeRemote", "addRemote", "add", "commit", "push"}

\* C5: when an init, getRemotes, removeRemote, addRemote, add, commit or push
\* call throws, it is the last git call of the invocation (nothing is executed
\* after it and it is not retried), the invocation ends Failed and rejects with
\* that very error.
C5_FatalFailurePropagates ==
    \A i \in DOMAIN log :
        (log[i].res = "failed" /\ log[i].op \in FatalOps) =>
            /\ i = Len(log)
            /\ pc \in {"124:catch", "done"}
            /\ outcome # "Done"
            /\ Terminal => (outcome = "Failed" /\ raised = log[i].err)

C5_Witness ==
    /\ Terminal
    /\ outcome = "Failed"
    /\ Len(log) > 0
    /\ log[Len(log)].op = "commit"
    /\ log[Len(log)].res = "failed"
    /\ raised = log[Len(log)].err

\* C6: in existing-repo mode init and the creation or checkout of branch main
\* are called exactly when .git is absent as the invocation starts: then init is
\* the first call and the branch call follows its success; when .git is present
\* neither is called and the first call is getRemotes (remote set-up).
C6_InitIffNoMetadata ==
    (isExistingRepo /\ invocation >= 1) =>
        /\ start.gitDir =>
              /\ ~Issued("init") /\ ~Issued("checkoutLocalBranch") /\ ~Issued("checkout")
              /\ Len(log) > 0 => log[1].op = "getRemotes"
              /\ Len(log) = 0 => pc \in {"45:isGitRepository", "59:getRemotes"}
        /\ ~start.gitDir =>
              /\ Len(log) > 0 => log[1].op = "init"
              /\ Len(log) = 0 => pc \in {"45:isGitRepository", "49:init"}
              /\ (Len(log) = 1 /\ log[1].res = "ok") => pc = "52:checkoutLocalBranch"
              /\ Len(log) > 1 => log[2].op = "checkoutLocalBranch"

C6_Witness ==
    /\ isExistingRepo
    /\ start.gitDir
    /\ Terminal
    /\ outcome = "Done"

\* what an earlier invocation left behind: a fact git refuses a call for, which
\* did not hold before the first invocation
LeftBehind(fact) ==
    \/ fact = "origin-exists" /\ base.origin = ""
    \/ fact = "main-exists" /\ "main" \notin base.branches

\* C7: a second invocation with the same inputs, in which nothing fails for an
\* external reason, has no call refused because of state the first invocation
\* left behind.
C7_RetryNeverFailsOnLeftovers ==
    (invocation >= 2 /\ \A i \in DOMAIN log : log[i].err.kind # "external") =>
        \A i \in DOMAIN log :
            ~(log[i].res = "failed" /\ log[i].err.kind = "state"
              /\ LeftBehind(log[i].err.fact))

GenPcs == {"76:generate", "21:genUnstaged", "30:genAnalyze", "35:genCatch"}

\* C8: at most one git call is in flight at any time, and while the commit
\* message is generated none is: stage-all has returned and commit has not been
\* called.
C8_OneOperationAtATime ==
    /\ Cardinality(inflight) <= 1
    /\ Cardinality({i \in DOMAIN log : log[i].res = "pending"}) <= 1
    /\ \A i \in DOMAIN log : log[i].res = "pending" => i = Len(log)
    /\ pc \in GenPcs =>
          /\ inflight = {}
          /\ Len(log) > 0
          /\ log[Len(log)].op = "add" /\ log[Len(log)].res = "ok"
          /\ ~Issued("commit")
    /\ (isExistingRepo /\ Issued("commit")) => gen.result # ""

C8_Witness ==
    /\ pc = "82:commit"
    /\ waiting
    /\ inflight = {"82:commit"}
    /\ "analyze" = gen.trace[Len(gen.trace)]

InTrace(event) == \E k \in DOMAIN gen.trace : gen.trace[k] = event

\* C9: when the staged and the unstaged diff read by generateCommitMessage are
\* both empty or whitespace, the result is 'chore: update code' and
\* analyzeSpecificChanges has not been invoked.
C9_BlankDiffsGiveFallback ==
    (InTrace("readStaged") /\ InTrace("readUnstaged")
     /\ Trim(gen.diff) = "" /\ Trim(gen.unstagedDiff) = "") =>
        /\ gen.result = "chore: update code"
        /\ Len(gen.result) > 0
        /\ ~InTrace("analyze")
        /\ pc # "30:genAnalyze"

C9_Witness ==
    /\ InTrace("readStaged") /\ InTrace("readUnstaged")
    /\ gen.diff = " \n" /\ gen.unstagedDiff = "\n  "
    /\ Done("commit")
    /\ commits # <<>> /\ commits[Len(commits)] = "chore: update code"

GeneratorThrew ==
    InTrace("readStagedThrows") \/ InTrace("readUnstagedThrows") \/ InTrace("analyzeThrows")

\* C10: generateCommitMessage never raises: when reading a diff throws, or the
\* analysis of the diff does, the exception is caught inside it, initAndPush
\* goes on to commit, and the message is 'chore: update code'.
C10_GeneratorNeverRaises ==
    /\ GeneratorThrew =>
          \/ pc = "35:genCatch"
          \/ /\ gen.result = "chore: update code"
             /\ InTrace("catch")
             /\ ~InTrace("analyze")
             /\ pc = "82:commit" \/ Issued("commit")
    /\ (isExistingRepo /\ Done("add") /\ ~Issued("commit")) =>
          pc \in GenPcs \cup {"82:commit"}

C10_Witness ==
    /\ InTrace("readUnstagedThrows")
    /\ \E i \in DOMAIN log :
          log[i].op = "commit" /\ log[i].arg = "chore: update code" /\ log[i].res = "ok"

\* C22: in existing-repo mode, once the catch of a failed pull has run, the
\* invocation has written exactly one warning if the failure message does not
\* contain "couldn't find remote ref" and none if it does; without a failed
\* pull there is no warning; and the pull failure is never what the invocation
\* rejects with: a Failed outcome after a failed pull comes from the push.
C22_PullWarningIffNotBenign ==
    /\ ~Failed("pull") => warnings = <<>>
    /\ \A i \in DOMAIN log :
          (log[i].op = "pull" /\ log[i].res = "failed" /\ pc # "89:pullCatch") =>
              /\ isExistingRepo
              /\ warnings = IF Includes(log[i].err.msg, "couldn't find remote ref")
                            THEN <<>>
                            ELSE <<"Could not pull: " \o log[i].err.msg>>
              /\ raised # log[i].err
              /\ outcome = "Failed" => (Failed("push") /\ raised.site = "96:push")

C22_Witness ==
    /\ isExistingRepo
    /\ Terminal
    /\ outcome = "Failed"
    /\ \E i \in DOMAIN log :
          /\ log[i].op = "pull" /\ log[i].res = "failed"
          /\ log[i].err.msg = "fatal: unable to access the remote"
    /\ Len(warnings) = 1

\* C23: generateCommitMessage parses and classifies the staged diff only: the
\* result of an analysis is the message of the staged text whatever the unstaged
\* text is, and when the staged diff is blank and the unstaged diff is not, the
\* analysis runs on the blank staged text and the message is 'chore: update
\* code'.
C23_OnlyStagedDiffIsAnalysed ==
    InTrace("analyze") =>
        /\ gen.result = analyzeSpecificChanges(gen.diff)
        /\ IsBlank(gen.diff) =>
              /\ InTrace("readUnstaged")
              /\ ~IsBlank(gen.unstagedDiff)
              /\ extractFileChanges(gen.diff) = <<>>
              /\ gen.result = "chore: update code"

C23_Witness ==
    /\ InTrace("analyze")
    /\ gen.diff = ""
    /\ gen.unstagedDiff = "--- a/x.ts\n+++ b/x.ts\n+let x = 2\n"
    /\ gen.result = "chore: update code"
    /\ Done("commit")

\* new-repository mode on a directory whose origin remote exists as it starts
NewRepoOverOrigin == ~isExistingRepo /\ invocation >= 1 /\ start.origin # ""

NoExternalFailure == \A i \in DOMAIN log : log[i].err.kind # "external"

\* C24 as claimed: in new-repository mode on a directory that already has an
\* origin remote the invocation always ends in Failed at the add-remote step,
\* push is never attempted, origin keeps its old URL and the commit 'Initial
\* commit from Forjex' created before the failure remains. Stated for the
\* invocations in which git refuses nothing for a reason outside the
\* repository, where the claim is at its strongest.
C24_AlwaysFailsAtAddRemote ==
    (NewRepoOverOrigin /\ Terminal /\ NoExternalFailure) =>
        /\ outcome = "Failed"
        /\ raised.site = "119:addRemote"
        /\ ~Issued("push")
        /\ origin = start.origin
        /\ commits # <<>>
        /\ commits[Len(commits)] = "Initial commit from Forjex"

\* C24 as amended: in new-repository mode on a directory that already has an
\* origin remote the invocation never succeeds, push is never attempted and
\* origin keeps its old URL; it ends in Failed, at the add-remote step unless
\* an earlier git call failed for a reason of its own; when add-remote is
\* refused the commit step has completed, and what it committed, if there was
\* anything to commit, is 'Initial commit from Forjex' and remains.
C24_NeverPushesOverOrigin ==
    NewRepoOverOrigin =>
        /\ ~Issued("push")
        /\ origin = start.origin
        /\ outcome # "Done"
        /\ Terminal => outcome = "Failed"
        /\ (Terminal /\ NoExternalFailure) =>
              /\ raised.site = "119:addRemote"
              /\ raised.fact = "origin-exists"
        /\ Failed("addRemote") =>
              /\ \E i \in DOMAIN log :
                    /\ log[i].op = "commit" /\ log[i].res = "ok"
                    /\ log[i].arg = "Initial commit from Forjex"
              /\ \A k \in DOMAIN commits : commits[k] = "Initial commit from Forjex"

C24_Witness ==
    /\ NewRepoOverOrigin
    /\ invocation = 1
    /\ Terminal
    /\ outcome = "Failed"
    /\ raised.fact = "origin-exists"
    /\ commits = <<"Initial commit from Forjex">>
    /\ origin = start.origin

\* C25: whenever initAndPush has called push, in either mode, origin exists and
\* its URL is the repoUrl of the invocation, a stage-all call and after it a
\* commit call have completed earlier in the same invocation, the push asks for
\* upstream tracking, and a push that succeeded pushed the local branch main.
C25_PushPreconditions ==
    \A p \in DOMAIN log :
        log[p].op = "push" =>
            /\ origin = repoUrl
            /\ origin # ""
            /\ log[p].arg = "--set-upstream"
            /\ \E a \in 1..(p - 1), c \in 1..(p - 1) :
                  /\ a < c
                  /\ log[a].op = "add" /\ log[a].res = "ok"
                  /\ log[c].op = "commit" /\ log[c].res = "ok"
            /\ log[p].res = "ok" => ("main" \in branches /\ upstream = repoUrl)

C25_Witness ==
    /\ isExistingRepo
    /\ start.origin \notin {"", repoUrl}
    /\ \E p \in DOMAIN log : log[p].op = "push" /\ log[p].res = "pending"
    /\ origin = repoUrl

----------------------------------------------------------------------------
(* Properties of the message synthesis (SpecSynth) *)

\* the files the change set of the call touches, once it is parsed
TouchedPaths ==
    IF synth.version = "specific"
    THEN {synth.fileChanges[k].file : k \in DOMAIN synth.fileChanges}
    ELSE LET allFiles == synth.files.added \o synth.files.modified \o synth.files.deleted
         IN  {allFiles[k] : k \in DOMAIN allFiles}

Typed == synth.step \in {"typed", "returned"} /\ synth.type # ""

\* C11: a change set whose only touched file is README.md is classified docs,
\* whatever tokens were extracted and however many lines were added or removed,
\* by the per-file classifier and by the name-status based one.
C11_ReadmeOnlyIsDocs ==
    (Typed /\ TouchedPaths = {"README.md"}) => synth.type = "docs"

C11_Witness ==
    /\ synth.version = "specific" /\ synth.step = "returned"
    /\ TouchedPaths = {"README.md"}
    /\ Len(synth.fileChanges[1].added) = 1
    /\ Len(synth.fileChanges[1].removed) = 2
    /\ synth.type = "docs"

\* the manifest/config rule of the per-file classifier (commit-generator.ts:167)
ConfigRule(f) == Includes(f, "config") \/ f = "package.json"

AnyTouched(P(_)) == \E f \in TouchedPaths : P(f)

\* C12: the type is decided by priority over all touched paths: docs when any
\* touched path is documentation, otherwise test when any is a test, otherwise
\* style, otherwise chore for a manifest/config path; whichever file the diff
\* names first.
C12_PriorityOverAllPaths ==
    (Typed /\ synth.version = "specific") =>
        IF AnyTouched(IsDocsPath) THEN synth.type = "docs"
        ELSE IF AnyTouched(IsTestPath) THEN synth.type = "test"
        ELSE IF AnyTouched(IsStylePath) THEN synth.type = "style"
        ELSE AnyTouched(ConfigRule) => synth.type = "chore"

\* a token of the per-file parser that names an added function, class or
\* component: none of its fixed tokens, no import and no hook
FeatureToken(t) ==
    /\ t \notin {"button", "input field", "form", "content"}
    /\ ~EndsWith(t, " import")
    /\ ~EndsWith(t, " hook")

HasFeature ==
    IF synth.version = "specific"
    THEN \E k \in DOMAIN synth.fileChanges :
            \E j \in DOMAIN synth.fileChanges[k].added :
               FeatureToken(synth.fileChanges[k].added[j])
    ELSE \/ Len(synth.keyChanges.functionsAdded) > 0
         \/ Len(synth.keyChanges.classesAdded) > 0
         \/ Len(synth.keyChanges.componentsAdded) > 0
         \/ Len(synth.files.added) > 0

NoPathRule ==
    /\ ~AnyTouched(IsDocsPath) /\ ~AnyTouched(IsTestPath) /\ ~AnyTouched(IsStylePath)
    /\ ~AnyTouched(ConfigRule) /\ ~AnyTouched(IsConfigPath)

\* C13: when no touched path is documentation, test, style or config, one added
\* function, class or component token, or one file with Added status, is enough
\* for the type feat.
C13_OneFeatureTokenIsFeat ==
    (Typed /\ NoPathRule /\ HasFeature) => synth.type = "feat"

\* the call was given only A-status entries (when it reads a listing at all)
\* and a diff that adds the one function foo in utils.ts
AddsFooToUtils ==
    IF synth.version = "specific"
    THEN /\ Len(synth.fileChanges) = 1
         /\ synth.fileChanges[1].file = "utils.ts"
         /\ synth.fileChanges[1].added = <<"foo">>
         /\ synth.fileChanges[1].removed = <<>>
    ELSE /\ synth.files = [NoFiles EXCEPT !.added = <<"utils.ts">>]
         /\ synth.keyChanges.functionsAdded = <<"foo">>
         /\ synth.keyChanges.functionsDeleted = <<>>
         /\ synth.keyChanges.importsAdded = <<>>
         /\ synth.keyChanges.classesAdded = <<>>
         /\ synth.keyChanges.componentsAdded = <<>>

\* C14: for a name-status listing with only A-status entries and a diff that
\* adds exactly one function token foo in utils.ts, the synthesized message is
\* exactly 'feat: add foo function to utils'.
C14_AddFooFunctionToUtils ==
    (synth.step = "returned" /\ AddsFooToUtils) =>
        synth.message = "feat: add foo function to utils"

\* the touched paths in the order the call met them
TouchedSeq ==
    IF synth.version = "specific"
    THEN [k \in DOMAIN synth.fileChanges |-> synth.fileChanges[k].file]
    ELSE synth.files.added \o synth.files.modified \o synth.files.deleted

\* the directory that holds the file, "" for a file at the top
ParentDir(path) ==
    LET segments == SplitOn(path, "/")
    IN  IF Len(segments) < 2 THEN "" ELSE segments[Len(segments) - 1]

HoldsHalf(dir) ==
    /\ dir # ""
    /\ 2 * Cardinality({k \in DOMAIN TouchedSeq : ParentDir(TouchedSeq[k]) = dir})
          >= Len(TouchedSeq)

\* the first-seen directory that accounts for at least half of the touched
\* files, "" when there is none
HalfScope ==
    IF \E k \in DOMAIN TouchedSeq : HoldsHalf(ParentDir(TouchedSeq[k]))
    THEN ParentDir(TouchedSeq[Min({k \in DOMAIN TouchedSeq :
                                      HoldsHalf(ParentDir(TouchedSeq[k]))})])
    ELSE ""

\* C15: the message is rendered type(scope): description whenever one parent
\* directory accounts for at least half of the touched files (the first-seen
\* one on a tie), and type: description otherwise.
C15_ScopeOfHalfTheFiles ==
    (synth.step = "returned" /\ synth.type # "") =>
        synth.message =
            IF HalfScope # ""
            THEN synth.type \o "(" \o HalfScope \o "): " \o synth.description
            ELSE synth.type \o ": " \o synth.description

\* the added lines of the diff that lie under a file header, without their "+"
AddedContents ==
    LET lines == SplitOn(synth.diff, "\n")
    IN  [i \in {k \in DOMAIN lines :
                   /\ StartsWith(lines[k], "+") /\ ~StartsWith(lines[k], "+++")
                   /\ \E h \in 1..(k - 1) : IsFileHeader(lines[h])}
           |-> Trim(SubSeq(lines[i], 2, Len(lines[i])))]

\* the added tokens of all files of the call, in order
RECURSIVE AllAdded(_)
AllAdded(fileChanges) ==
    IF Len(fileChanges) = 0 THEN <<>>
    ELSE fileChanges[1].added \o AllAdded(Tail(fileChanges))

DeclaredFunction(content) ==
    FunctionDeclName(content, Min({i \in 1..Len(content) : FunctionDeclAt(content, i)}))

\* C16: every added line contributes at most one token, and an added line that
\* declares a named function contributes the Function token that carries the
\* function's name (the function rule is first in the rule order).
C16_NamedFunctionYieldsItsName ==
    (synth.version = "specific" /\ synth.step = "extracted") =>
        /\ Len(AllAdded(synth.fileChanges)) <= Cardinality(DOMAIN AddedContents)
        /\ \A i \in DOMAIN AddedContents :
              (\E p \in 1..Len(AddedContents[i]) : FunctionDeclAt(AddedContents[i], p)) =>
                  \E t \in DOMAIN AllAdded(synth.fileChanges) :
                     AllAdded(synth.fileChanges)[t] = DeclaredFunction(AddedContents[i])

\* the positions of the file headers among lines i.., in order
RECURSIVE HeaderPositions(_, _)
HeaderPositions(lines, i) ==
    IF i > Len(lines) THEN <<>>
    ELSE (IF IsFileHeader(lines[i]) THEN <<i>> ELSE <<>>) \o HeaderPositions(lines, i + 1)

\* the tokens of the lines i..j that start with sign, in line order
RECURSIVE SectionTokens(_, _, _, _)
SectionTokens(lines, i, j, sign) ==
    IF i > j THEN <<>>
    ELSE LET content == Trim(SubSeq(lines[i], 2, Len(lines[i])))
         IN  (IF /\ StartsWith(lines[i], sign)
                 /\ ~StartsWith(lines[i], sign \o sign \o sign)
                 /\ content # ""
              THEN IF sign = "+" THEN AddedToken(content) ELSE RemovedToken(content)
              ELSE <<>>)
             \o SectionTokens(lines, i + 1, j, sign)

\* C17: the scan attributes every +/- content line to the file of the most
\* recent '+++ b/<path>' header and to no other: there is one change set per
\* header, it holds exactly the tokens of the lines up to the next header, and
\* lines before the first header belong to no change set, so a diff without
\* any header yields no change set even when it has bare + or - lines.
C17_LinesBelongToLastHeader ==
    (synth.version = "specific" /\ synth.step # "called") =>
        LET lines == SplitOn(synth.diff, "\n")
            headers == HeaderPositions(lines, 1)
            last(k) == IF k < Len(headers) THEN headers[k + 1] - 1 ELSE Len(lines)
        IN  /\ Len(synth.fileChanges) = Len(headers)
            /\ \A k \in DOMAIN synth.fileChanges :
                  /\ synth.fileChanges[k].file = HeaderPath(lines[headers[k]])
                  /\ synth.fileChanges[k].added =
                        SectionTokens(lines, headers[k] + 1, last(k), "+")
                  /\ synth.fileChanges[k].removed =
                        SectionTokens(lines, headers[k] + 1, last(k), "-")

C17_Witness ==
    /\ synth.version = "specific" /\ synth.step = "extracted"
    /\ synth.diff = "+function foo() {}\n+++ b/src/utils.ts\n+class Foo {}\n-legacy(old, value)\n"
    /\ synth.fileChanges =
          <<[file |-> "src/utils.ts", added |-> <<"Foo class">>,
             removed |-> <<"code">>, modified |-> <<>>]>>

\* lines with line i repeated once
Repeated(lines, i) == SubSeq(lines, 1, i) \o <<lines[i]>> \o SubSeq(lines, i + 1, Len(lines))

IsContentLine(line) ==
    \/ StartsWith(line, "+") /\ ~StartsWith(line, "+++")
    \/ StartsWith(line, "-") /\ ~StartsWith(line, "---")

\* C18: duplicate tokens are removed before any use: repeating an added or
\* removed line of the diff, whose token is then already extracted, changes
\* neither the commit type nor the description of the message.
C18_RepeatedLineChangesNothing ==
    (synth.version = "specific" /\ synth.step = "returned") =>
        LET lines == SplitOn(synth.diff, "\n")
        IN  \A i \in DOMAIN lines :
               IsContentLine(lines[i]) =>
                  analyzeSpecificChanges(Join(Repeated(lines, i), "\n")) = synth.message

\* more than twice as many removed lines as added ones, and some added
MostlyRemoved ==
    /\ synth.keyChanges.addedLines > 0
    /\ synth.keyChanges.deletedLines > 2 * synth.keyChanges.addedLines

\* C26 as claimed: the name-status based classifier returns refactor only for
\* change sets with no added line and at least one removed line, and classifies
\* every change set with added > 0 and removed > 2 x added as fix.
C26_MostlyRemovedIsFix ==
    (synth.version = "detailed" /\ Typed) =>
        /\ synth.type = "refactor" =>
              synth.keyChanges.addedLines = 0 /\ synth.keyChanges.deletedLines >= 1
        /\ MostlyRemoved => synth.type = "fix"

\* C26 as amended: the name-status based classifier returns refactor only for
\* change sets with no added line and at least one removed line; a change set
\* with added > 0 and removed > 2 x added is never classified refactor, and is
\* classified fix unless one of the rules tested before the fix rule (a docs,
\* test, style or config path, or the feat rule) applies.
C26_FixBeforeRefactor ==
    (synth.version = "detailed" /\ Typed) =>
        /\ synth.type = "refactor" =>
              synth.keyChanges.addedLines = 0 /\ synth.keyChanges.deletedLines >= 1
        /\ MostlyRemoved =>
              /\ synth.type # "refactor"
              /\ (NoPathRule /\ ~HasFeature) => synth.type = "fix"

C26_Witness ==
    /\ synth.version = "detailed" /\ synth.step = "returned"
    /\ synth.fileStatus = "M\tsrc/utils.ts\n"
    /\ synth.keyChanges.addedLines = 1
    /\ synth.keyChanges.deletedLines = 3
    /\ synth.type = "fix"

----------------------------------------------------------------------------
(* Properties of generateCommitMessage (Spec) *)

CommitTypes == {"docs", "test", "style", "chore", "feat", "fix", "refactor"}

\* msg is '<type>: <description>' with a known type and a description that is
\* not empty
WellFormed(msg) ==
    \E type \in CommitTypes :
        StartsWith(msg, type \o ": ") /\ Len(msg) > Len(type) + 2

\* generateCommitMessage has returned (its result is the commit message)
Generated == pc = "82:commit" /\ Len(gen.trace) > 0

\* C19: for every pair of staged and unstaged diff texts, the string that
\* generateCommitMessage returns is not empty and reads '<type>: <description>'
\* with type one of docs, test, style, chore, feat, fix, refactor and a
\* description that is not empty.
C19_MessageIsTypeAndDescription ==
    Generated => WellFormed(gen.result)

C19_Witness ==
    /\ Generated
    /\ InTrace("analyze")
    /\ gen.result = "feat: add a, B class to api.ts"


----------------------------------------------------------------------------
(* Properties of forgeCommand (SpecForge) *)

\* the failures that are to stop the workflow: initAndPush rejecting, and the
\* repository name that already exists
StoppingFailures == {"git", "nameConflict"}

\* C20: forgeCommand stops short of its final summary only on a fatal
\* git-operation failure or on the repository name conflict: a run that ended
\* in the catch block was stopped by one of these two, and every other failure
\* (authentication, project detection, CI/CD generation, URL parsing, Vercel
\* authentication, linking or deployment) leaves the run on its way to the
\* summary.
C20_OnlyGitOrConflictStops ==
    forge.ending = "exit" => forge.error \in StoppingFailures


----------------------------------------------------------------------------
(* Properties of GitHubService and VercelService (SpecServices) *)

\* C21: createRepository throws 'Not authenticated' without calling the
\* backend when the service has no client; otherwise it calls the backend once
\* and returns the clone URL on success, throws a new error with the message
\* 'Repository name already exists' when the backend answered 422, and
\* rethrows every other backend error unchanged.
C21_NameConflictIsDistinguished ==
    svc.method = "createRepository" =>
        IF svc.octokit = ""
        THEN svc.result = Threw(Err(0, "Not authenticated")) /\ svc.calls = <<>>
        ELSE /\ svc.calls = <<"createForAuthenticatedUser">>
             /\ IF svc.env.kind = "returned"
                THEN svc.result = Returned(svc.env.value)
                ELSE IF svc.env.error.status = 422
                THEN svc.result = Threw(Err(0, "Repository name already exists"))
                ELSE svc.result = Threw(svc.env.error)

C21_Witness ==
    /\ svc.method = "createRepository"
    /\ svc.octokit = DeviceToken
    /\ svc.env = Threw(Err(422, "Validation Failed"))
    /\ svc.result.error.message = "Repository name already exists"


\* the configuration file holds a token that isTokenValid accepts: token
\* present, expiresAt present and in the future
CachedTokenValid(config, now) ==
    config.file /\ config.token # "" /\ config.expiresAt # 0 /\ now < config.expiresAt

\* C27: GitHubService.authenticate writes the configuration only after the
\* device flow returned a token and the user lookup succeeded, and a call that
\* rejects has written nothing; with a valid cached token (token present,
\* expiresAt present and in the future) it resolves without the device flow;
\* whatever the dashboard sync does, the call does not reject because of it.
C27_TokenSavedOnlyOnSuccess ==
    svc.method = "authenticate" =>
        /\ svc.written =>
              /\ svc.env.device = Err(0, "") /\ svc.env.user = Err(0, "")
              /\ svc.calls = <<"deviceFlow", "getAuthenticated", "saveConfig", "sendUserToAPI">>
              /\ svc.config.token = DeviceToken
              /\ svc.result.kind = "returned"
        /\ svc.result.kind = "threw" =>
              /\ ~svc.written
              /\ svc.config.token # DeviceToken
              /\ svc.result.error \in {svc.env.device, svc.env.user,
                                       Err(0, "EACCES: permission denied")}
        /\ svc.calls = <<>> <=> svc.result = Returned("") /\ ~svc.written
        /\ (svc.calls = <<>>) => (svc.octokit = svc.config.token
                                  /\ CachedTokenValid(svc.config, svc.now))
        /\ (~svc.written /\ CachedTokenValid(svc.config, svc.now)) => svc.calls = <<>>
        /\ (svc.calls # <<>> /\ svc.calls[Len(svc.calls)] = "sendUserToAPI") =>
              svc.result.kind = "returned"
        /\ (svc.env.device = Err(0, "") /\ svc.env.user = Err(0, "") /\ svc.env.save) =>
              svc.result.kind = "returned"

C27_Witness ==
    /\ svc.method = "authenticate"
    /\ svc.written
    /\ svc.env.sync = "failed"
    /\ svc.warned = <<"failed">>
    /\ svc.result.kind = "returned"
    /\ svc.config.token = DeviceToken


\* VercelService.authenticate has resolved in an earlier call of the run
VercelAuthenticated ==
    \E k \in 1..(Len(svc.history) - 1) :
        svc.history[k] = <<"vercelAuthenticate", "returned">>

Ran(command) == \E k \in DOMAIN svc.calls : svc.calls[k] = command

\* C28: deployWithGitHub runs `vercel --prod --yes` only after authenticate
\* succeeded on the same instance, and otherwise throws 'Not authenticated with
\* Vercel' before any side effect; a failure of the link step or of the git
\* connect step only warns: the deploy command still runs and the call
\* resolves; a failure of the deploy command always makes the call reject.
C28_DeployOnlyWhenAuthenticated ==
    svc.method = "deployWithGitHub" =>
        /\ Ran("vercel --prod --yes") => VercelAuthenticated
        /\ ~VercelAuthenticated =>
              /\ svc.result = Threw(Err(0, "Not authenticated with Vercel"))
              /\ svc.calls = <<>>
              /\ ~svc.written
        /\ (VercelAuthenticated /\ Ran("vercel link")) => Ran("vercel --prod --yes")
        /\ Ran("vercel --prod --yes") =>
              /\ svc.result.kind = "threw" <=> ~svc.env.deploy
              /\ svc.env.deploy =>
                    /\ Ran("vercel git connect")
                    /\ svc.result = Returned(FirstUrl(svc.env.output))
              /\ ~svc.env.link => svc.warned[1] = "link"
              /\ (svc.env.deploy /\ ~svc.env.connect) =>
                    svc.warned[Len(svc.warned)] = "connect"

C28_Witness ==
    /\ svc.method = "deployWithGitHub"
    /\ VercelAuthenticated
    /\ ~svc.env.link /\ ~svc.env.connect /\ svc.env.deploy
    /\ svc.warned = <<"link", "connect">>
    /\ svc.result = Returned("https://demo.vercel.app")


InSteps(step) == \E k \in DOMAIN forge.steps : forge.steps[k] = step

GitSteps == {"initAndPush"}

VercelSteps == {"vercelAuthenticate", "deployWithGitHub", "deploy"}

\* C29: when the user chose a new repository, the directory is already a git
\* repository and the user declines 'Commit and push changes?', forgeCommand
\* returns at once: it has called neither initAndPush nor any Vercel method,
\* even when deployment was requested, it does not go through its catch block,
\* and the repository it created is still what repoUrl names.
C29_DeclineReturnsImmediately ==
    /\ forge.declined =>
          /\ forge.repoChoice = "github-new" /\ forge.isRepo
          /\ forge.pc = "done" /\ forge.ending = "setupComplete"
          /\ forge.error = ""
          /\ \A k \in DOMAIN forge.steps : forge.steps[k] \notin GitSteps \cup VercelSteps
          /\ forge.steps[Len(forge.steps)] \in {"detect", "generate"}
          /\ InSteps("createRepository")
          /\ forge.repoUrl = CreatedRepoUrl
          /\ forge.vercelUrl = ""
    /\ forge.ending = "setupComplete" => forge.declined

C29_Witness ==
    /\ forge.declined
    /\ forge.deployVercel
    /\ forge.addCICD
    /\ forge.ending = "setupComplete"


\* the place of a step in the order of forgeCommand
Rank(step) ==
    CASE step = "authenticate" -> 1
      [] step \in {"createRepository", "selectRepository"} -> 2
      [] step = "detect" -> 3
      [] step = "generate" -> 4
      [] step = "initAndPush" -> 5
      [] step = "vercelAuthenticate" -> 6
      [] step \in {"deployWithGitHub", "deploy"} -> 7

\* C30: the steps forgeCommand has called come in the order GitHub
\* authentication, repository creation or selection, project detection, CI/CD
\* generation (only if requested and the project type is known), initAndPush,
\* Vercel authentication and deployment (only if requested), none of them
\* twice and none before the authentication, repository and detection steps
\* that precede it; initAndPush is never called with an empty repoUrl, and no
\* Vercel step is called after initAndPush has failed.
C30_StepOrder ==
    /\ \A j, k \in DOMAIN forge.steps :
          j < k => Rank(forge.steps[j]) < Rank(forge.steps[k])
    /\ \A k \in DOMAIN forge.steps :
          /\ k <= 3 => Rank(forge.steps[k]) = k
          /\ forge.steps[k] = "createRepository" <=> (k = 2 /\ forge.repoChoice = "github-new")
          /\ forge.steps[k] = "generate" =>
                forge.addCICD /\ forge.projectType \notin {"", "unknown"}
          /\ forge.steps[k] = "initAndPush" => forge.repoUrl # ""
          /\ forge.steps[k] \in VercelSteps =>
                /\ forge.deployVercel
                /\ InSteps("initAndPush")
                /\ "git" \notin forge.failed
    /\ forge.ending = "summary" =>
          /\ InSteps("detect") /\ InSteps("initAndPush")
          /\ forge.addCICD /\ forge.projectType # "unknown" => InSteps("generate")
          /\ forge.deployVercel => InSteps("deployWithGitHub") \/ InSteps("deploy")
    /\ forge.error = "git" =>
          /\ forge.steps[Len(forge.steps)] = "initAndPush"
          /\ forge.pc \in {"303:catch", "done"}
          /\ forge.ending \in {"", "exit"}

C30_Witness ==
    /\ forge.ending = "summary"
    /\ forge.repoChoice = "github-existing"
    /\ forge.steps = <<"authenticate", "selectRepository", "detect", "generate",
                       "initAndPush", "vercelAuthenticate", "deployWithGitHub">>

====
